---------------------------- MODULE Spec2Model ----------------------------
(***************************************************************************)
(* A model of butterfly's state-graph observer (src/src/observer.rs), its  *)
(* feedback (src/src/feedback.rs), its mutation scheduler                  *)
(* (src/src/scheduler.rs) with the packet mutators it drives               *)
(* (src/src/mutators/*.rs), and the FTP example fuzzer                     *)
(* (src/examples/fizzle_ftp_fuzzer/src).                                   *)
(*                                                                         *)
(* The specifications share the variables:                                 *)
(*   Spec          the observer and the feedback under any interleaving of *)
(*                 record / pre_exec / post_exec / is_interesting;         *)
(*   ReplaySpec    a warm-up run followed by the same scripted run played  *)
(*                 twice with a pre_exec in between (scenarios S1 and S2); *)
(*   SchedSpec     calls of PacketMutationScheduler::scheduled_mutate on a *)
(*                 packet sequence (FairSchedSpec adds the fairness of the *)
(*                 random source);                                         *)
(*   MutSpec, BoundsSpec, SpliceErrSpec                                    *)
(*                 direct calls of the packet mutators;                    *)
(*   BytesSpec, FtpCapSpec                                                 *)
(*                 the packet capabilities of BytesInput and FtpProtocol;  *)
(*   ExecSpec      the executor wrapper of the example;                    *)
(*   ToBytesSpec, PcapSpec, RoundTripSpec                                  *)
(*                 serialisation and seed import of the example.           *)
(***************************************************************************)
EXTENDS Integers, Sequences, FiniteSets, TLC

\* ------------------------------------------------------------------ bounds

\* Longest run (records between two resets) explored by Spec.
MaxRunLen == 3

\* Longest scripted run explored by ReplaySpec (scenario S1 has 5 records).
MaxScript == 5

\* Longest warm-up run that precedes the scripted run in ReplaySpec.
MaxWarm == 1

\* Most packets of an input handed to scheduled_mutate in SchedSpec.
MaxPackets == 2

\* Most bytes of a packet of an input handed to scheduled_mutate in SchedSpec.
MaxBytes == 1

\* --------------------------------------------------------------- universes

\* The byte values of packet payloads: 'A' and 'B', as in the mutators' tests.
Bytes == {65, 66}

\* The observed states PS of Spec: FTP reply codes, as in the example fuzzer.
States == {220, 331, 230}

\* The observed states of the scripted scenario (S1): 220, 331, 230, 215.
ScenarioStates == {220, 331, 230, 215}

\* The name the example gives its observer (StateObserver::new).
ObserverName == "ButterflyState"

USER_STAT_NODES == "butterfly_state_nodes"
USER_STAT_EDGES == "butterfly_state_edges"

\* Option<T>: None is the empty sequence, Some(x) the one-element sequence.
None == <<>>
Some(x) == <<x>>

\* All sequences over S of length at most n.
SeqsUpTo(S, n) == UNION {[1..k -> S] : k \in 0..n}

VARIABLES
    graph,      \* StateObserver.graph: [nodes, edges, last_node, new_transitions]
    trace,      \* history: the states recorded since the last reset
    graph0,     \* history: the graph as it was at the last reset
    op,         \* history: the operation performed last
    ret,        \* history: Some(result) of the is_interesting call performed last
    fired,      \* history: the events that call handed to the event manager
    script,     \* ReplaySpec: the scripted run
    warm,       \* ReplaySpec: the warm-up run
    phase,      \* ReplaySpec: 0 warm-up, 1 first scripted run, 2 its replay
    mutations,  \* PacketMutationScheduler.mutations: the tuple of sub-mutators
    input,      \* the input being mutated: a sequence of BytesInput packets
    result,     \* scheduled_mutate's local variable result
    sched_pc,   \* "idle", "loop" (at the while test), "done", "panicked"
    input0,     \* history: the input when scheduled_mutate was called
    applied,    \* history: the indices of the sub-mutators that returned Mutated
    had_skip,   \* history: a sub-mutator returned Skipped during this call
    called,     \* history: the mutator whose mutate ran last, and how it was built
    this,       \* BytesSpec, FtpCapSpec: the packet a capability is called on (its self)
    that,       \* BytesSpec, FtpCapSpec: the packet it is crossed with (its other)
    this0,      \* history: this before the capability called last
    capability, \* history: the capability called last
    cap_result, \* history: what that call returned
    executor,        \* ExecSpec: the FizzleExecutor [proto_parser, inner_executor]
    responses,       \* ExecSpec: the states the target's responses of this run carry
    inner_ret,       \* ExecSpec: what the inner executor's run_target returned
    exec_ret,        \* ExecSpec: Some(what FizzleExecutor::run_target returned)
    exec_pc,         \* ExecSpec: "idle", "ready" (after pre_exec), "ran", "evaluated"
    pkts,            \* ToBytesSpec: Packets.pkts, a sequence of FtpProtocol values
    usize_bytes,     \* ToBytesSpec: size_of::<usize>() of the build, 4 or 8
    wire,            \* ToBytesSpec: Some(the Vec<u8> to_bytes returned)
    ser_pc,          \* ToBytesSpec: "ready", "returned", "panicked"
    capture,         \* PcapSpec: the frames of the capture, in order
    consumed,        \* PcapSpec: how many frames next_packet has handed out
    command_connection, \* PcapSpec: from_pcap's local of that name
    pcap_packets,    \* PcapSpec: from_pcap's local packets
    pcap_pc          \* PcapSpec: "loop", "done" (Some(packets) returned), "panicked"

graphVars == <<graph, trace, graph0, op, ret, fired>>
replayVars == <<script, warm, phase>>
schedVars == <<mutations, input, result, sched_pc, input0, applied, had_skip>>
applyVars == <<called, this, that, this0, capability, cap_result>>
execVars == <<executor, responses, inner_ret, exec_ret, exec_pc>>
serVars == <<pkts, usize_bytes, wire, ser_pc>>
pcapVars == <<capture, consumed, command_connection, pcap_packets, pcap_pc>>
exampleVars == <<execVars, serVars, pcapVars>>
vars == <<graph, trace, graph0, op, ret, fired, script, warm, phase,
          mutations, input, result, sched_pc, input0, applied, had_skip,
          called, this, that, this0, capability, cap_result,
          executor, responses, inner_ret, exec_ret, exec_pc,
          pkts, usize_bytes, wire, ser_pc,
          capture, consumed, command_connection, pcap_packets, pcap_pc>>

\* ------------------------------------------------------------ observer.rs

\* A u64 is kept as its two 32-bit halves <<high, low>>: (from << 32) | to has
\* high half from and low half to.
pack_transition(from, to) == <<from, to>>

unpack_transition(transition) == <<transition[1], transition[2]>>

\* StateGraph::new
StateGraph_new ==
    [nodes |-> <<>>, edges |-> {}, last_node |-> None, new_transitions |-> FALSE]

\* Mutant of reset: the per-run link to the previous state survives a reset.
reset_keeps_last_node(g) == [g EXCEPT !.new_transitions = FALSE]

\* Mutant of reset: a reset starts a new graph.
reset_clears_graph(g) ==
    [nodes |-> g.nodes, edges |-> {}, last_node |-> None, new_transitions |-> FALSE]

\* StateGraph::reset
reset(g) == [g EXCEPT !.last_node = None, !.new_transitions = FALSE]

\* StateGraph::add_node without the lookup: a known state is numbered again.
add_node_no_lookup(g, state) ==
    LET next_id == Cardinality(DOMAIN g.nodes)
    IN  [g |-> [g EXCEPT !.nodes = (state :> next_id) @@ g.nodes],
         id |-> next_id]

\* StateGraph::add_node: the graph afterwards and the id returned.
add_node(g, state) ==
    IF state \in DOMAIN g.nodes
    THEN [g |-> g, id |-> g.nodes[state]]
    ELSE LET next_id == Cardinality(DOMAIN g.nodes)
         IN  [g |-> [g EXCEPT !.nodes = g.nodes @@ (state :> next_id)],
              id |-> next_id]

\* Mutant of add_edge: the old_id != id test is missing.
add_edge_self_loop(g, id) ==
    LET inserted ==
            IF g.last_node # None
            THEN pack_transition(g.last_node[1], id) \notin g.edges
            ELSE FALSE
        edges2 ==
            IF g.last_node # None
            THEN g.edges \cup {pack_transition(g.last_node[1], id)}
            ELSE g.edges
    IN  [g EXCEPT !.edges = edges2,
                  !.new_transitions = g.new_transitions \/ inserted,
                  !.last_node = Some(id)]

\* Mutant of add_edge: every transition taken counts as new, known or not.
add_edge_always_new(g, id) ==
    LET taken == g.last_node # None /\ g.last_node[1] # id
    IN  [g EXCEPT !.edges = IF taken
                            THEN g.edges \cup {pack_transition(g.last_node[1], id)}
                            ELSE g.edges,
                  !.new_transitions = g.new_transitions \/ taken,
                  !.last_node = Some(id)]

\* Mutant of add_edge: new_transitions is assigned, not or-ed.
add_edge_assigns(g, id) ==
    LET taken == g.last_node # None /\ g.last_node[1] # id
        transition == pack_transition(g.last_node[1], id)
    IN  [g EXCEPT !.edges = IF taken THEN g.edges \cup {transition} ELSE g.edges,
                  !.new_transitions = taken /\ transition \notin g.edges,
                  !.last_node = Some(id)]

\* StateGraph::add_edge. HashSet::insert returns whether the value was new.
add_edge(g, id) ==
    LET inserted ==
            IF g.last_node # None
            THEN LET old_id == g.last_node[1]
                 IN  IF old_id # id
                     THEN pack_transition(old_id, id) \notin g.edges
                     ELSE FALSE
            ELSE FALSE
        edges2 ==
            IF g.last_node # None /\ g.last_node[1] # id
            THEN g.edges \cup {pack_transition(g.last_node[1], id)}
            ELSE g.edges
    IN  [g EXCEPT !.edges = edges2,
                  !.new_transitions = g.new_transitions \/ inserted,
                  !.last_node = Some(id)]

\* StateObserver::record
record(g, state) ==
    LET r == add_node(g, state) IN add_edge(r.g, r.id)

\* StateObserver::had_new_transitions
had_new_transitions(g) == g.new_transitions

\* StateObserver::info
info(g) == <<Cardinality(DOMAIN g.nodes), Cardinality(g.edges)>>

\* MatchName for StateObserver: the observer, when the name is its own.
match_name(g, name) == IF ObserverName = name THEN Some(g) ELSE None

\* ------------------------------------------------------------ feedback.rs

\* StateFeedback::new copies the observer's name.
observer_name == ObserverName

UpdateUserStats(name, value, agg) == [name |-> name, value |-> value, agg |-> agg]

\* Mutant of is_interesting: interesting whenever the graph has an edge.
is_interesting_any_edge(g) ==
    LET state_observer == match_name(g, observer_name)[1]
        r == info(state_observer)[2] > 0
    IN  [ret |-> r,
         fired |-> IF r
                   THEN <<UpdateUserStats(USER_STAT_NODES, info(state_observer)[1], "Max"),
                          UpdateUserStats(USER_STAT_EDGES, info(state_observer)[2], "Max")>>
                   ELSE <<>>]

\* StateFeedback::is_interesting firing the events whatever the result.
is_interesting_always_fires(g) ==
    LET state_observer == match_name(g, observer_name)[1]
        r == had_new_transitions(state_observer)
    IN  [ret |-> r,
         fired |-> <<UpdateUserStats(USER_STAT_NODES, info(state_observer)[1], "Max"),
                     UpdateUserStats(USER_STAT_EDGES, info(state_observer)[2], "Max")>>]

\* StateFeedback::is_interesting (without the graphviz feature): the result
\* and the events fired, in order.
is_interesting(g) ==
    LET state_observer == match_name(g, observer_name)[1]
        r == had_new_transitions(state_observer)
    IN  [ret |-> r,
         fired |-> IF r
                   THEN <<UpdateUserStats(USER_STAT_NODES, info(state_observer)[1], "Max"),
                          UpdateUserStats(USER_STAT_EDGES, info(state_observer)[2], "Max")>>
                   ELSE <<>>]

\* ------------------------------------------------------- actions of Spec

GraphInit ==
    /\ graph = StateGraph_new
    /\ trace = <<>>
    /\ graph0 = StateGraph_new
    /\ op = "new"
    /\ ret = None
    /\ fired = <<>>

\* StateObserver::record(state)
DoRecord(state) ==
    /\ graph' = record(graph, state)
    /\ trace' = Append(trace, state)
    /\ op' = "record"
    /\ ret' = None
    /\ fired' = <<>>
    /\ UNCHANGED graph0

\* Observer::pre_exec
DoPreExec ==
    /\ graph' = reset(graph)
    /\ trace' = <<>>
    /\ graph0' = graph'
    /\ op' = "pre_exec"
    /\ ret' = None
    /\ fired' = <<>>

\* Observer::post_exec: Ok(()) and nothing else.
DoPostExec ==
    /\ op' = "post_exec"
    /\ ret' = None
    /\ fired' = <<>>
    /\ UNCHANGED <<graph, trace, graph0>>

\* Feedback::is_interesting
DoIsInteresting ==
    /\ match_name(graph, observer_name) # None
    /\ LET r == is_interesting(graph)
       IN  /\ ret' = Some(r.ret)
           /\ fired' = r.fired
    /\ op' = "is_interesting"
    /\ UNCHANGED <<graph, trace, graph0>>

Record ==
    /\ Len(trace) < MaxRunLen
    /\ \E state \in States : DoRecord(state)
    /\ UNCHANGED <<replayVars, schedVars, applyVars, exampleVars>>

PreExec ==
    /\ DoPreExec
    /\ UNCHANGED <<replayVars, schedVars, applyVars, exampleVars>>

PostExec ==
    /\ DoPostExec
    /\ UNCHANGED <<replayVars, schedVars, applyVars, exampleVars>>

IsInteresting ==
    /\ DoIsInteresting
    /\ UNCHANGED <<replayVars, schedVars, applyVars, exampleVars>>

\* No scripted run: the replay variables of Spec and SchedSpec.
NoReplay ==
    /\ script = <<>>
    /\ warm = <<>>
    /\ phase = 0

\* No scheduler: the scheduler variables of Spec and ReplaySpec.
NoSched ==
    /\ mutations = <<>>
    /\ input = <<>>
    /\ result = "Skipped"
    /\ sched_pc = "idle"
    /\ input0 = <<>>
    /\ applied = <<>>
    /\ had_skip = FALSE

\* No direct call of a mutator or of a capability: the variables of those calls.
NoApply ==
    /\ called = None
    /\ this = <<>>
    /\ that = <<>>
    /\ this0 = <<>>
    /\ capability = None
    /\ cap_result = "Skipped"

\* No executor wrapper: the variables of ExecSpec.
NoExec ==
    /\ executor = None
    /\ responses = <<>>
    /\ inner_ret = None
    /\ exec_ret = None
    /\ exec_pc = "idle"

\* No serialisation: the variables of ToBytesSpec.
NoSer ==
    /\ pkts = <<>>
    /\ usize_bytes = 8
    /\ wire = None
    /\ ser_pc = "ready"

\* No seed import: the variables of PcapSpec.
NoPcap ==
    /\ capture = <<>>
    /\ consumed = 0
    /\ command_connection = None
    /\ pcap_packets = <<>>
    /\ pcap_pc = "loop"

\* None of the example fuzzer's executor, serialisation and seed import.
NoExample ==
    /\ NoExec
    /\ NoSer
    /\ NoPcap

Init ==
    /\ GraphInit
    /\ NoReplay
    /\ NoSched
    /\ NoApply
    /\ NoExample

Next ==
    \/ Record
    \/ PreExec
    \/ PostExec
    \/ IsInteresting

Spec == Init /\ [][Next]_vars

\* ------------------------------------------------- actions of ReplaySpec

\* Scenario S1: the states fed to the observer.
S1Script == <<220, 331, 230, 230, 215>>

ReplayInit ==
    /\ GraphInit
    /\ script \in SeqsUpTo(ScenarioStates, MaxScript)
    /\ warm \in SeqsUpTo(ScenarioStates, MaxWarm)
    /\ phase = 0
    /\ NoSched
    /\ NoApply
    /\ NoExample

\* The warm-up run records its next state.
WarmRecord ==
    /\ phase = 0
    /\ Len(trace) < Len(warm)
    /\ DoRecord(warm[Len(trace) + 1])
    /\ UNCHANGED <<replayVars, schedVars, applyVars, exampleVars>>

\* pre_exec before the scripted run.
WarmReset ==
    /\ phase = 0
    /\ Len(trace) = Len(warm)
    /\ DoPreExec
    /\ phase' = 1
    /\ UNCHANGED <<script, warm, schedVars, applyVars, exampleVars>>

\* The scripted run, or its replay, records its next state.
ScriptRecord ==
    /\ phase \in {1, 2}
    /\ Len(trace) < Len(script)
    /\ DoRecord(script[Len(trace) + 1])
    /\ UNCHANGED <<replayVars, schedVars, applyVars, exampleVars>>

\* pre_exec between the scripted run and its replay.
ScriptReset ==
    /\ phase = 1
    /\ Len(trace) = Len(script)
    /\ DoPreExec
    /\ phase' = 2
    /\ UNCHANGED <<script, warm, schedVars, applyVars, exampleVars>>

\* The feedback is asked once a scripted run is over.
ScriptIsInteresting ==
    /\ phase \in {1, 2}
    /\ Len(trace) = Len(script)
    /\ DoIsInteresting
    /\ UNCHANGED <<replayVars, schedVars, applyVars, exampleVars>>

ReplayNext ==
    \/ WarmRecord
    \/ WarmReset
    \/ ScriptRecord
    \/ ScriptReset
    \/ ScriptIsInteresting

ReplaySpec == ReplayInit /\ [][ReplayNext]_vars

\* -------------------------------------------- claims checked in ReplaySpec

\* The edges of g as pairs of states.
StateEdges(g) ==
    {st \in (DOMAIN g.nodes) \X (DOMAIN g.nodes) :
        pack_transition(g.nodes[st[1]], g.nodes[st[2]]) \in g.edges}

\* The distinct states of a sequence, and its distinct pairs of consecutive
\* unequal states.
StatesOf(seq) == {seq[i] : i \in 1..Len(seq)}
PairsOf(seq) ==
    {<<seq[i], seq[i + 1]>> : i \in {j \in 1..(Len(seq) - 1) : seq[j] # seq[j + 1]}}

\* The scripted run into a fresh observer is over.
FreshRunDone == phase = 1 /\ warm = <<>> /\ trace = script

\* C3: a sequence recorded into a fresh observer yields one node per distinct
\* state and one edge per distinct pair of consecutive unequal states, and
\* nothing else; [220, 331, 230, 230, 215] gives info() = (4, 3), the edges
\* (220,331), (331,230), (230,215) and had_new_transitions() true.
C3_FreshRun ==
    FreshRunDone =>
        /\ DOMAIN graph.nodes = StatesOf(script)
        /\ \A s, t \in DOMAIN graph.nodes : graph.nodes[s] = graph.nodes[t] => s = t
        /\ StateEdges(graph) = PairsOf(script)
        /\ info(graph) = <<Cardinality(StatesOf(script)), Cardinality(PairsOf(script))>>
        /\ script = S1Script =>
              /\ info(graph) = <<4, 3>>
              /\ StateEdges(graph) = {<<220, 331>>, <<331, 230>>, <<230, 215>>}
              /\ had_new_transitions(graph)

\* Scenario S1 has been fed to a fresh observer.
C3_Witness == FreshRunDone /\ script = S1Script

\* C6: after a run, a pre_exec and the same run again, the replay has added no
\* node and no edge, info() is what it was and had_new_transitions() is false.
C6_ReplayIdempotent ==
    phase = 2 =>
        /\ graph.nodes = graph0.nodes
        /\ graph.edges = graph0.edges
        /\ info(graph) = info(graph0)
        /\ ~had_new_transitions(graph)
        /\ (op = "is_interesting" => ret = Some(FALSE))

\* The replay of a run with transitions is over, after a warm-up run.
C6_Witness ==
    /\ phase = 2
    /\ trace = script
    /\ PairsOf(script) # {}
    /\ warm # <<>>
    /\ op = "is_interesting"

\* ------------------------------------------------- claims checked in Spec

\* The id the graph gives state s.
IdOf(s) == graph.nodes[s]

\* The packed transitions between consecutive unequal states of the current run.
RunPairs ==
    {pack_transition(IdOf(trace[i]), IdOf(trace[i + 1])) :
        i \in {j \in 1..(Len(trace) - 1) : trace[j] # trace[j + 1]}}

\* C1: after any sequence of record and pre_exec calls no packed edge has its
\* from-id equal to its to-id, also when a state is recorded twice in a row.
C1_NoSelfLoop ==
    \A e \in graph.edges : unpack_transition(e)[1] # unpack_transition(e)[2]

\* A run that recorded the same state twice in a row, in a graph with edges.
C1_Witness ==
    /\ \E i \in 1..(Len(trace) - 1) : trace[i] = trace[i + 1]
    /\ graph.edges # {}

\* C2: the edge set holds every transition between consecutive unequal states
\* of the run, and had_new_transitions() is true exactly when one of them was
\* not in the edge set when the run started.
C2_RunEdges ==
    /\ RunPairs \subseteq graph.edges
    /\ had_new_transitions(graph) <=> (RunPairs \ graph0.edges # {})

\* A run over known edges only, and started with them, that reports nothing new.
C2_Witness ==
    /\ RunPairs # {}
    /\ RunPairs \subseteq graph0.edges
    /\ ~had_new_transitions(graph)

\* C4: the first record after a reset (or after construction) inserts no edge
\* and leaves new_transitions false; it sets last_node to the id of the
\* recorded state, which add_node registers when the state is new.
C4_FirstRecord ==
    [][(op' = "record" /\ trace = <<>>) =>
          LET s == trace'[1]
          IN  /\ graph'.edges = graph.edges
              /\ ~graph.new_transitions /\ ~graph'.new_transitions
              /\ graph'.last_node = Some(graph'.nodes[s])
              /\ DOMAIN graph'.nodes = DOMAIN graph.nodes \cup {s}
              /\ \A t \in DOMAIN graph.nodes : graph'.nodes[t] = graph.nodes[t]]_vars

\* A first record of a later run, into a graph where a link from some other
\* node to the recorded state would have been a new edge.
C4_Witness ==
    /\ op = "record" /\ Len(trace) = 1
    /\ graph0.edges # {}
    /\ \E x \in {graph.nodes[t] : t \in DOMAIN graph.nodes} :
          /\ x # IdOf(trace[1])
          /\ pack_transition(x, IdOf(trace[1])) \notin graph.edges

\* C5: no step removes a node or an edge or changes a node's id, and a reset
\* changes only last_node (to None) and new_transitions (to false).
C5_Monotonic ==
    [][/\ DOMAIN graph.nodes \subseteq DOMAIN graph'.nodes
       /\ \A t \in DOMAIN graph.nodes : graph'.nodes[t] = graph.nodes[t]
       /\ graph.edges \subseteq graph'.edges
       /\ op' = "pre_exec" =>
             /\ graph'.nodes = graph.nodes
             /\ graph'.edges = graph.edges
             /\ graph'.last_node = None
             /\ graph'.new_transitions = FALSE]_vars

\* A reset of a graph that has nodes and edges, after a run that found some.
C5_Witness ==
    /\ op = "pre_exec"
    /\ graph.edges # {}
    /\ DOMAIN graph.nodes # {}

C8_NewStateInteresting ==
    (/\ op = "is_interesting"
     /\ \/ DOMAIN graph.nodes # DOMAIN graph0.nodes
        \/ graph.edges # graph0.edges)
    => ret = Some(TRUE)

\* ------------------------------------------------------------- mutators

\* Vec helpers, with Rust's 0-based indices.
At(v, i) == v[i + 1]
Vec_remove(v, i) == SubSeq(v, 1, i) \o SubSeq(v, i + 2, Len(v))
Vec_insert(v, i, x) == SubSeq(v, 1, i) \o <<x>> \o SubSeq(v, i + 1, Len(v))
Vec_swap(v, i, j) == [v EXCEPT ![i + 1] = v[j + 1], ![j + 1] = v[i + 1]]
Vec_set(v, i, x) == [v EXCEPT ![i + 1] = x]
\* Vec::resize(new_len, 0) when new_len is at least the length.
Vec_grow(v, new_len) == v \o [k \in 1..(new_len - Len(v)) |-> 0]
\* slice[to..to+len].copy_from_slice(&src[from..from+len])
Copy_from_slice(v, to, src, from, len) ==
    [k \in 1..Len(v) |->
        IF to < k /\ k <= to + len THEN src[from + (k - to)] ELSE v[k]]
\* slice.copy_within(from..end, dest)
Copy_within(v, from, end, dest) ==
    [k \in 1..Len(v) |->
        IF dest < k /\ k <= dest + (end - from) THEN v[from + (k - dest)] ELSE v[k]]

Min(a, b) == IF a <= b THEN a ELSE b
Max(a, b) == IF a >= b THEN a ELSE b

\* What rand.below(n) may return.
below(n) == 0..(n - 1)

\* The outcome of a packet capability: the result and the packet afterwards.
\* A panic (a slice index out of bounds) leaves no result.
PacketOutcome(r, data) == [result |-> r, data |-> data]

\* The outcome of a mutator: the result and the input afterwards. A panic
\* (NonZero::new(0).unwrap()) leaves no result.
Outcome(r, inp) == [result |-> r, input |-> inp]

\* slice[a..b] is in bounds; indexing panics otherwise.
Slice_ok(v, a, b) == a <= b /\ b <= Len(v)

\* BytesInput::mutate_crossover_insert without the copy_within that moves the
\* bytes from to onwards out of the way.
mutate_crossover_insert_no_shift(self, other) ==
    IF Len(self) = 0 \/ Len(other) = 0
    THEN {PacketOutcome("Skipped", self)}
    ELSE LET self_len == Len(self)
             other_len == Len(other)
             draws == {d \in below(other_len) \X below(self_len) \X (1..other_len) :
                          d[3] - 1 \in below(other_len - d[1])}
         IN  {LET from == d[1]
                  to == d[2]
                  len == d[3]
                  resized == Vec_grow(self, self_len + len)
              IN  PacketOutcome("Mutated", Copy_from_slice(resized, to, other, from, len))
              : d \in draws}

\* Mutant of mutate_crossover_insert: to is drawn below self_len + 1, so the
\* bytes of other may be appended.
mutate_crossover_insert_appends(self, other) ==
    IF Len(self) = 0 \/ Len(other) = 0
    THEN {PacketOutcome("Skipped", self)}
    ELSE LET self_len == Len(self)
             other_len == Len(other)
             draws == {d \in below(other_len) \X below(self_len + 1) \X (1..other_len) :
                          d[3] - 1 \in below(other_len - d[1])}
         IN  {LET from == d[1]
                  to == d[2]
                  len == d[3]
                  resized == Vec_grow(self, self_len + len)
                  moved == Copy_within(resized, to, self_len, to + len)
              IN  PacketOutcome("Mutated", Copy_from_slice(moved, to, other, from, len))
              : d \in draws}

\* BytesInput::mutate_crossover_insert: every outcome the random source allows.
mutate_crossover_insert(self, other) ==
    IF Len(self) = 0 \/ Len(other) = 0
    THEN {PacketOutcome("Skipped", self)}
    ELSE LET self_len == Len(self)
             other_len == Len(other)
             draws == {d \in below(other_len) \X below(self_len) \X (1..other_len) :
                          d[3] - 1 \in below(other_len - d[1])}
         IN  {LET from == d[1]
                  to == d[2]
                  len == d[3]
                  resized == Vec_grow(self, self_len + len)
                  moved == Copy_within(resized, to, self_len, to + len)
              IN  IF /\ Slice_ok(resized, to, self_len)
                     /\ Slice_ok(resized, to + len, to + len + (self_len - to))
                     /\ Slice_ok(moved, to, to + len)
                     /\ Slice_ok(other, from, from + len)
                  THEN PacketOutcome("Mutated", Copy_from_slice(moved, to, other, from, len))
                  ELSE PacketOutcome("Panic", self)
              : d \in draws}

\* BytesInput::mutate_crossover_replace with len bounded by other_len - from
\* only, not by self_len - to.
mutate_crossover_replace_unclamped(self, other) ==
    IF Len(self) = 0 \/ Len(other) = 0
    THEN {PacketOutcome("Skipped", self)}
    ELSE LET self_len == Len(self)
             other_len == Len(other)
             draws == {d \in below(other_len) \X below(self_len) \X (1..other_len) :
                          d[3] - 1 \in below(other_len - d[1])}
         IN  {IF Slice_ok(self, d[2], d[2] + d[3]) /\ Slice_ok(other, d[1], d[1] + d[3])
              THEN PacketOutcome("Mutated", Copy_from_slice(self, d[2], other, d[1], d[3]))
              ELSE PacketOutcome("Panic", self)
              : d \in draws}

\* BytesInput::mutate_crossover_replace
mutate_crossover_replace(self, other) ==
    IF Len(self) = 0 \/ Len(other) = 0
    THEN {PacketOutcome("Skipped", self)}
    ELSE LET self_len == Len(self)
             other_len == Len(other)
             draws == {d \in below(other_len) \X below(self_len) \X (1..other_len) :
                          d[3] - 1 \in below(Min(other_len - d[1], self_len - d[2]))}
         IN  {IF Slice_ok(self, d[2], d[2] + d[3]) /\ Slice_ok(other, d[1], d[1] + d[3])
              THEN PacketOutcome("Mutated", Copy_from_slice(self, d[2], other, d[1], d[3]))
              ELSE PacketOutcome("Panic", self)
              : d \in draws}

\* BytesInput::mutate_splice testing self_len == 0 only: NonZero::new(other_len)
\* then panics on an empty other.
mutate_splice_self_test_only(self, other) ==
    IF Len(self) = 0
    THEN {PacketOutcome("Skipped", self)}
    ELSE IF Len(other) = 0
    THEN {PacketOutcome("Panic", self)}
    ELSE LET self_len == Len(self)
             other_len == Len(other)
         IN  {LET to == d[1]
                  from == d[2]
                  len == other_len - from
                  resized == IF to + len > self_len THEN Vec_grow(self, to + len) ELSE self
              IN  PacketOutcome("Mutated", Copy_from_slice(resized, to, other, from, len))
              : d \in below(self_len) \X below(other_len)}

\* Mutant of mutate_splice: self ends where the copied tail ends.
mutate_splice_truncates(self, other) ==
    IF Len(self) = 0 \/ Len(other) = 0
    THEN {PacketOutcome("Skipped", self)}
    ELSE LET self_len == Len(self)
             other_len == Len(other)
         IN  {LET to == d[1]
                  from == d[2]
                  len == other_len - from
              IN  PacketOutcome("Mutated",
                                SubSeq(self, 1, to) \o SubSeq(other, from + 1, other_len))
              : d \in below(self_len) \X below(other_len)}

\* BytesInput::mutate_splice
mutate_splice(self, other) ==
    IF Len(self) = 0 \/ Len(other) = 0
    THEN {PacketOutcome("Skipped", self)}
    ELSE LET self_len == Len(self)
             other_len == Len(other)
         IN  {LET to == d[1]
                  from == d[2]
                  len == other_len - from
                  resized == IF to + len > self_len THEN Vec_grow(self, to + len) ELSE self
              IN  IF Slice_ok(resized, to, to + len) /\ Slice_ok(other, from, from + len)
                  THEN PacketOutcome("Mutated", Copy_from_slice(resized, to, other, from, len))
                  ELSE PacketOutcome("Panic", self)
              : d \in below(self_len) \X below(other_len)}

\* The constructors. Delete and Splice raise their bound to at least 1.
PacketReorderMutator_new == [kind |-> "Reorder"]
\* PacketDeleteMutator::new without the max(1, min_packets).
PacketDeleteMutator_new_raw(min_packets) ==
    [kind |-> "Delete", min_packets |-> min_packets]

PacketDeleteMutator_new(min_packets) ==
    [kind |-> "Delete", min_packets |-> Max(1, min_packets)]
PacketDuplicateMutator_new(max_packets) ==
    [kind |-> "Duplicate", max_packets |-> max_packets]
PacketCrossoverInsertMutator_new == [kind |-> "CrossoverInsert"]
PacketCrossoverReplaceMutator_new == [kind |-> "CrossoverReplace"]
PacketSpliceMutator_new(min_packets) ==
    [kind |-> "Splice", min_packets |-> Max(1, min_packets)]

\* PacketSpliceMutator<P, S>::new for a packet type P other than BytesInput.
PacketSpliceMutator_new_for(P, min_packets) ==
    [kind |-> "Splice", min_packets |-> Max(1, min_packets), P |-> P]

\* The packet type a mutator was built for: BytesInput unless it says so.
PacketTypeOf(m) == IF "P" \in DOMAIN m THEN m.P ELSE "BytesInput"

\* HasSpliceMutation::mutate_splice of the packet type P. The trait lets an
\* implementation return Err; BytesInput never does, and "FalliblePacket"
\* stands for a packet type that splices as BytesInput does or fails and
\* leaves self alone.
HasSpliceMutation_mutate_splice(P, self, other) ==
    IF P = "BytesInput"
    THEN mutate_splice(self, other)
    ELSE mutate_splice(self, other) \cup {PacketOutcome("Err", self)}

\* PacketReorderMutator::mutate without the from == to test.
PacketReorderMutator_mutate_no_eq_test(m, inp) ==
    IF Len(inp) <= 1
    THEN {Outcome("Skipped", inp)}
    ELSE {Outcome("Mutated", Vec_swap(inp, d[1], d[2]))
          : d \in below(Len(inp)) \X below(Len(inp))}

\* PacketReorderMutator::mutate
PacketReorderMutator_mutate(m, inp) ==
    IF Len(inp) <= 1
    THEN {Outcome("Skipped", inp)}
    ELSE {IF d[1] = d[2]
          THEN Outcome("Skipped", inp)
          ELSE Outcome("Mutated", Vec_swap(inp, d[1], d[2]))
          : d \in below(Len(inp)) \X below(Len(inp))}

\* PacketDeleteMutator::mutate with < in place of <= in the length test.
PacketDeleteMutator_mutate_lt(m, inp) ==
    IF Len(inp) < m.min_packets
    THEN {Outcome("Skipped", inp)}
    ELSE {Outcome("Mutated", Vec_remove(inp, idx)) : idx \in below(Len(inp))}

\* PacketDeleteMutator::mutate
PacketDeleteMutator_mutate(m, inp) ==
    IF Len(inp) <= m.min_packets
    THEN {Outcome("Skipped", inp)}
    ELSE {Outcome("Mutated", Vec_remove(inp, idx)) : idx \in below(Len(inp))}

\* PacketDuplicateMutator::mutate with > in place of >= in the length test.
PacketDuplicateMutator_mutate_gt(m, inp) ==
    IF Len(inp) > m.max_packets
    THEN {Outcome("Skipped", inp)}
    ELSE IF Len(inp) = 0
    THEN {Outcome("Panic", inp)}
    ELSE {IF d[1] = d[2]
          THEN Outcome("Skipped", inp)
          ELSE Outcome("Mutated", Vec_insert(inp, d[2], At(inp, d[1])))
          : d \in below(Len(inp)) \X below(Len(inp) + 1)}

\* PacketDuplicateMutator::mutate inserting an empty packet, not the clone.
PacketDuplicateMutator_mutate_no_clone(m, inp) ==
    IF Len(inp) >= m.max_packets
    THEN {Outcome("Skipped", inp)}
    ELSE IF Len(inp) = 0
    THEN {Outcome("Panic", inp)}
    ELSE {IF d[1] = d[2]
          THEN Outcome("Skipped", inp)
          ELSE Outcome("Mutated", Vec_insert(inp, d[2], <<>>))
          : d \in below(Len(inp)) \X below(Len(inp) + 1)}

\* PacketDuplicateMutator::mutate. NonZero::new(input.len()).unwrap() panics
\* on an empty input that passed the max_packets test.
PacketDuplicateMutator_mutate(m, inp) ==
    IF Len(inp) >= m.max_packets
    THEN {Outcome("Skipped", inp)}
    ELSE IF Len(inp) = 0
    THEN {Outcome("Panic", inp)}
    ELSE {IF d[1] = d[2]
          THEN Outcome("Skipped", inp)
          ELSE Outcome("Mutated", Vec_insert(inp, d[2], At(inp, d[1])))
          : d \in below(Len(inp)) \X below(Len(inp) + 1)}

\* PacketCrossoverInsertMutator::mutate without the packet == other test (and
\* with the clone of the safe_only build, so that a packet can meet itself).
PacketCrossoverInsertMutator_mutate_no_eq_test(m, inp) ==
    IF Len(inp) <= 1
    THEN {Outcome("Skipped", inp)}
    ELSE UNION {{Outcome(o.result, Vec_set(inp, d[1], o.data))
                 : o \in mutate_crossover_insert(At(inp, d[1]), At(inp, d[2]))}
                : d \in below(Len(inp)) \X below(Len(inp))}

\* PacketCrossoverInsertMutator::mutate. packet and other are distinct
\* elements of the vector, so the two pointers of the unsafe block do not
\* alias and the call sees what the safe_only build's clone sees.
PacketCrossoverInsertMutator_mutate(m, inp) ==
    IF Len(inp) <= 1
    THEN {Outcome("Skipped", inp)}
    ELSE UNION {IF d[1] = d[2]
                THEN {Outcome("Skipped", inp)}
                ELSE {Outcome(o.result, Vec_set(inp, d[1], o.data))
                      : o \in mutate_crossover_insert(At(inp, d[1]), At(inp, d[2]))}
                : d \in below(Len(inp)) \X below(Len(inp))}

\* PacketCrossoverReplaceMutator::mutate
PacketCrossoverReplaceMutator_mutate(m, inp) ==
    IF Len(inp) <= 1
    THEN {Outcome("Skipped", inp)}
    ELSE UNION {IF d[1] = d[2]
                THEN {Outcome("Skipped", inp)}
                ELSE {Outcome(o.result, Vec_set(inp, d[1], o.data))
                      : o \in mutate_crossover_replace(At(inp, d[1]), At(inp, d[2]))}
                : d \in below(Len(inp)) \X below(Len(inp))}

\* Mutant of PacketSpliceMutator::mutate: the packet taken out is not put
\* back when the packet-level splice is skipped.
PacketSpliceMutator_mutate_no_reinsert(m, inp) ==
    IF Len(inp) <= m.min_packets
    THEN {Outcome("Skipped", inp)}
    ELSE UNION {LET other == At(inp, packet + 1)
                    removed == Vec_remove(inp, packet + 1)
                IN  {Outcome(o.result, Vec_set(removed, packet, o.data))
                     : o \in HasSpliceMutation_mutate_splice(PacketTypeOf(m), At(removed, packet),
                                                             other)}
                : packet \in below(Len(inp) - 1)}

\* PacketSpliceMutator::mutate putting the packet back after a Mutated
\* splice as well.
PacketSpliceMutator_mutate_always_reinsert(m, inp) ==
    IF Len(inp) <= m.min_packets
    THEN {Outcome("Skipped", inp)}
    ELSE UNION {LET other == At(inp, packet + 1)
                    removed == Vec_remove(inp, packet + 1)
                IN  {LET spliced == Vec_set(removed, packet, o.data)
                     IN  Outcome(o.result, Vec_insert(spliced, packet + 1, other))
                     : o \in HasSpliceMutation_mutate_splice(PacketTypeOf(m), At(removed, packet),
                                                             other)}
                : packet \in below(Len(inp) - 1)}

\* PacketSpliceMutator::mutate
PacketSpliceMutator_mutate(m, inp) ==
    IF Len(inp) <= m.min_packets
    THEN {Outcome("Skipped", inp)}
    ELSE UNION {LET other == At(inp, packet + 1)
                    removed == Vec_remove(inp, packet + 1)
                IN  {LET spliced == Vec_set(removed, packet, o.data)
                     IN  IF o.result = "Skipped"
                         THEN Outcome(o.result, Vec_insert(spliced, packet + 1, other))
                         ELSE Outcome(o.result, spliced)
                     : o \in HasSpliceMutation_mutate_splice(PacketTypeOf(m), At(removed, packet),
                                                             other)}
                : packet \in below(Len(inp) - 1)}

\* Mutator::mutate of the sub-mutator m: every outcome on inp.
Mutator_mutate(m, inp) ==
    CASE m.kind = "Reorder" -> PacketReorderMutator_mutate(m, inp)
      [] m.kind = "Delete" -> PacketDeleteMutator_mutate(m, inp)
      [] m.kind = "Duplicate" -> PacketDuplicateMutator_mutate(m, inp)
      [] m.kind = "CrossoverInsert" -> PacketCrossoverInsertMutator_mutate(m, inp)
      [] m.kind = "CrossoverReplace" -> PacketCrossoverReplaceMutator_mutate(m, inp)
      [] m.kind = "Splice" -> PacketSpliceMutator_mutate(m, inp)

\* ------------------------------------------------------------ scheduler.rs

\* Mutant of schedule: the last sub-mutator is never drawn.
schedule_never_last(mt) == below(Max(1, Len(mt) - 1))

\* PacketMutationScheduler::schedule: the MutationIds it may return.
schedule(mt) == below(Len(mt))

\* MutatorsTuple::get_and_mutate
get_and_mutate(mt, mutation, inp) == Mutator_mutate(At(mt, mutation), inp)

\* Mutant of the while test: the loop goes on after Mutated.
loop_test_always(r) == TRUE

\* Mutant of the while test: the loop gives up after a Skipped.
loop_test_never(r) == FALSE

\* The while test of scheduled_mutate.
loop_test(r) == r = "Skipped"

\* The tuples of sub-mutators the scheduler is built with: the example's
\* (without havoc), the same without Duplicate, and Reorder with Duplicate.
Registrations ==
    UNION {{<<PacketReorderMutator_new, PacketDeleteMutator_new(mn),
              PacketDuplicateMutator_new(mx), PacketCrossoverInsertMutator_new,
              PacketCrossoverReplaceMutator_new, PacketSpliceMutator_new(mn)>>,
            <<PacketReorderMutator_new, PacketDeleteMutator_new(mn),
              PacketCrossoverInsertMutator_new, PacketCrossoverReplaceMutator_new,
              PacketSpliceMutator_new(mn)>>,
            <<PacketReorderMutator_new, PacketDuplicateMutator_new(mx)>>}
           : mn \in 0..MaxPackets, mx \in 0..MaxPackets}

\* The inputs a call of scheduled_mutate is explored on.
Packets == SeqsUpTo(Bytes, MaxBytes)
Inputs == SeqsUpTo(Packets, MaxPackets)
InBounds(inp) ==
    /\ Len(inp) <= MaxPackets
    /\ \A k \in 1..Len(inp) : Len(inp[k]) <= MaxBytes

SchedInit ==
    /\ GraphInit
    /\ NoReplay
    /\ mutations \in Registrations
    /\ input \in Inputs
    /\ result = "Skipped"
    /\ sched_pc = "idle"
    /\ input0 = input
    /\ applied = <<>>
    /\ had_skip = FALSE
    /\ NoApply
    /\ NoExample

\* scheduled_mutate is called: let mut result = MutationResult::Skipped.
Call ==
    /\ sched_pc = "idle"
    /\ InBounds(input)
    /\ result' = "Skipped"
    /\ sched_pc' = "loop"
    /\ input0' = input
    /\ applied' = <<>>
    /\ had_skip' = FALSE
    /\ UNCHANGED <<mutations, input, graphVars, replayVars, applyVars, exampleVars>>

\* One turn of the loop: schedule, then get_and_mutate.
Attempt ==
    /\ sched_pc = "loop"
    /\ loop_test(result)
    /\ \E mutation \in schedule(mutations) :
          \E o \in get_and_mutate(mutations, mutation, input) :
             /\ input' = o.input
             /\ IF o.result = "Panic"
                THEN /\ sched_pc' = "panicked"
                     /\ UNCHANGED <<result, applied, had_skip>>
                ELSE /\ result' = o.result
                     /\ applied' = IF o.result = "Mutated"
                                   THEN Append(applied, mutation)
                                   ELSE applied
                     /\ had_skip' = (had_skip \/ o.result = "Skipped")
                     /\ UNCHANGED sched_pc
    /\ UNCHANGED <<mutations, input0, graphVars, replayVars, applyVars, exampleVars>>

\* The loop is left: Ok(result).
Exit ==
    /\ sched_pc = "loop"
    /\ ~loop_test(result)
    /\ sched_pc' = "done"
    /\ UNCHANGED <<mutations, input, result, input0, applied, had_skip,
                   graphVars, replayVars, applyVars, exampleVars>>

\* The caller takes the mutated input; it may be mutated again later.
Return ==
    /\ sched_pc = "done"
    /\ sched_pc' = "idle"
    /\ input0' = input
    /\ applied' = <<>>
    /\ had_skip' = FALSE
    /\ result' = "Skipped"
    /\ UNCHANGED <<mutations, input, graphVars, replayVars, applyVars, exampleVars>>

SchedNext ==
    \/ Call
    \/ Attempt
    \/ Exit
    \/ Return

SchedSpec == SchedInit /\ [][SchedNext]_vars

\* The random source is fair: a draw that is possible in every turn of the
\* loop is made in the end, and the steps around the loop are taken.
FairSchedSpec ==
    /\ SchedSpec
    /\ WF_vars(Attempt /\ result' = "Mutated")
    /\ WF_vars(Exit)

\* ---------------------------------------------- claims checked in SchedSpec

\* Sub-mutator number mutation (0-based) can return Mutated on inp.
CanReturnMutated(mutation, inp) ==
    \E o \in Mutator_mutate(At(mutations, mutation), inp) : o.result = "Mutated"

\* C9: one call of scheduled_mutate applies exactly one Mutated sub-mutation:
\* while only Skipped came back the input is the original one, no sub-mutator
\* runs after the first Mutated, and the input returned is a Mutated result of
\* that one sub-mutator on the original input.
C9_OneMutation ==
    /\ Len(applied) <= 1
    /\ (sched_pc = "loop" /\ applied = <<>>) => (input = input0 /\ result = "Skipped")
    /\ sched_pc = "done" =>
          /\ result = "Mutated"
          /\ Len(applied) = 1
          /\ Outcome("Mutated", input) \in get_and_mutate(mutations, applied[1], input0)

\* A call that returned after Skipped attempts, having changed the input.
C9_Witness ==
    /\ sched_pc = "done"
    /\ had_skip
    /\ input # input0

\* C10: under a fair random source a call on an input that some registered
\* sub-mutator can mutate leaves the retry loop and returns Mutated.
C10_Terminates ==
    (/\ sched_pc = "loop"
     /\ result = "Skipped"
     /\ \E mutation \in below(Len(mutations)) : CanReturnMutated(mutation, input))
    ~> (sched_pc = "done" /\ result = "Mutated")

\* A call that returned although a registered sub-mutator can only skip the
\* original input, and one did skip.
C10_Witness ==
    /\ sched_pc = "done"
    /\ result = "Mutated"
    /\ had_skip
    /\ \E mutation \in below(Len(mutations)) : ~CanReturnMutated(mutation, input0)


\* ---------------------------------------------------- actions of MutSpec
\* MutSpec calls the six mutators directly, each built with any bound, on
\* every input of at most MutMaxPackets packets.

\* Most packets of an input a mutator is called on in MutSpec.
MutMaxPackets == 5

\* The packets of those inputs: b"" , b"A" and b"B", as in the mutators' tests.
SeedPackets == {<<>>, <<65>>, <<66>>}

MutInputs == SeqsUpTo(SeedPackets, MutMaxPackets)

\* The mutator that was called and the argument its constructor was given.
Called(m, arg) == [m |-> m, arg |-> arg]

MutInit ==
    /\ GraphInit
    /\ NoReplay
    /\ mutations = <<>>
    /\ input \in MutInputs
    /\ result = "Skipped"
    /\ sched_pc = "idle"
    /\ input0 = input
    /\ applied = <<>>
    /\ had_skip = FALSE
    /\ NoApply
    /\ NoExample

\* m.mutate(state, &mut input). A panic ends the process.
Mutate(m, arg) ==
    /\ result # "Panic"
    /\ input \in MutInputs
    /\ \E o \in Mutator_mutate(m, input) :
          /\ input' = o.input
          /\ result' = o.result
    /\ input0' = input
    /\ called' = Some(Called(m, arg))
    /\ UNCHANGED <<mutations, sched_pc, applied, had_skip,
                   this, that, this0, capability, cap_result,
                   graphVars, replayVars, exampleVars>>

MutateReorder == Mutate(PacketReorderMutator_new, None)

MutateDelete ==
    \E min_packets \in 0..MutMaxPackets :
        Mutate(PacketDeleteMutator_new(min_packets), Some(min_packets))

MutateDuplicate ==
    \E max_packets \in 0..MutMaxPackets :
        Mutate(PacketDuplicateMutator_new(max_packets), Some(max_packets))

MutateCrossoverInsert == Mutate(PacketCrossoverInsertMutator_new, None)

MutateCrossoverReplace == Mutate(PacketCrossoverReplaceMutator_new, None)

MutateSplice ==
    \E min_packets \in 0..MutMaxPackets :
        Mutate(PacketSpliceMutator_new(min_packets), Some(min_packets))

MutNext ==
    \/ MutateReorder
    \/ MutateDelete
    \/ MutateDuplicate
    \/ MutateCrossoverInsert
    \/ MutateCrossoverReplace
    \/ MutateSplice

MutSpec == MutInit /\ [][MutNext]_vars

\* ----------------------------------------------------- claims in MutSpec

\* The mutator called last, and the argument of its constructor.
CalledKind == called[1].m.kind
CalledArg == called[1].arg[1]
WasCalled(kind) == called # None /\ CalledKind = kind

\* C11: on an empty input every mutator, whatever min_packets or max_packets
\* it was built with, returns Skipped: it neither panics nor returns an error.
C11_EmptySkipped ==
    (called # None /\ Len(input0) = 0) => result = "Skipped"

\* C12: whenever a mutator returns Skipped, the input is exactly what it was
\* before the call: the same packets, in the same order, with the same bytes.
C12_SkippedUnchanged ==
    (called # None /\ result = "Skipped") => input = input0

\* Splice took a packet out, the packet capability returned Skipped, and the
\* packet was put back.
C12_Witness ==
    /\ WasCalled("Splice")
    /\ result = "Skipped"
    /\ Len(input0) > called[1].m.min_packets
    /\ input = input0

\* ------------------------------------------------- actions of BoundsSpec
\* BoundsSpec registers the six mutators of the example fuzzer with one
\* min_packets and one max_packets and applies them, in any order and any
\* number of times, to an input that starts within the bounds.

\* Largest max_packets, and so most packets of an input, in BoundsSpec.
BoundsMaxPackets == 5

BoundsInputs == SeqsUpTo(SeedPackets, BoundsMaxPackets)

\* The mutators of the example fuzzer, in its order.
BoundsMutators(min_packets, max_packets) ==
    <<PacketReorderMutator_new,
      PacketDeleteMutator_new(min_packets),
      PacketDuplicateMutator_new(max_packets),
      PacketCrossoverInsertMutator_new,
      PacketCrossoverReplaceMutator_new,
      PacketSpliceMutator_new(min_packets)>>

BoundsInit ==
    /\ GraphInit
    /\ NoReplay
    /\ \E min_packets \in 0..BoundsMaxPackets, max_packets \in 0..BoundsMaxPackets :
          /\ Max(1, min_packets) <= max_packets
          /\ mutations = BoundsMutators(min_packets, max_packets)
          /\ input \in {inp \in BoundsInputs :
                           /\ Max(1, min_packets) <= Len(inp)
                           /\ Len(inp) <= max_packets}
    /\ result = "Skipped"
    /\ sched_pc = "idle"
    /\ input0 = <<>>
    /\ applied = <<>>
    /\ had_skip = FALSE
    /\ NoApply
    /\ NoExample

\* mutations[mutation].mutate(state, &mut input)
BoundsMutate(mutation) ==
    /\ result # "Panic"
    /\ input \in BoundsInputs
    /\ \E o \in Mutator_mutate(At(mutations, mutation), input) :
          /\ input' = o.input
          /\ result' = o.result
    /\ called' = Some(Called(At(mutations, mutation), None))
    /\ UNCHANGED <<mutations, sched_pc, input0, applied, had_skip,
                   this, that, this0, capability, cap_result,
                   graphVars, replayVars, exampleVars>>

BoundsReorder == BoundsMutate(0)
BoundsDelete == BoundsMutate(1)
BoundsDuplicate == BoundsMutate(2)
BoundsCrossoverInsert == BoundsMutate(3)
BoundsCrossoverReplace == BoundsMutate(4)
BoundsSplice == BoundsMutate(5)

BoundsNext ==
    \/ BoundsReorder
    \/ BoundsDelete
    \/ BoundsDuplicate
    \/ BoundsCrossoverInsert
    \/ BoundsCrossoverReplace
    \/ BoundsSplice

BoundsSpec == BoundsInit /\ [][BoundsNext]_vars

\* -------------------------------------------------- claims in BoundsSpec

\* C13: with m = max(1, min_packets) and m <= max_packets, an input that starts
\* with m <= len <= max_packets still has m <= len <= max_packets after any
\* sequence of mutations by Reorder, Delete(min_packets),
\* Duplicate(max_packets), CrossoverInsert, CrossoverReplace and
\* Splice(min_packets).
C13_PacketCountBounds ==
    /\ Max(1, At(mutations, 1).min_packets) <= Len(input)
    /\ Max(1, At(mutations, 5).min_packets) <= Len(input)
    /\ Len(input) <= At(mutations, 2).max_packets

\* A duplication has filled the input up to max_packets.
C13_Witness ==
    /\ WasCalled("Duplicate")
    /\ result = "Mutated"
    /\ Len(input) = At(mutations, 2).max_packets
    /\ At(mutations, 1).min_packets < At(mutations, 2).max_packets

\* C14: PacketReorderMutator returns Skipped on an input of at most one
\* packet; when it returns Mutated, the input is the old input with the packets
\* at two distinct positions exchanged and every other position unchanged.
C14_Reorder ==
    WasCalled("Reorder") =>
        /\ Len(input0) <= 1 => result = "Skipped"
        /\ result = "Mutated" =>
              /\ Len(input) = Len(input0)
              /\ \E i, j \in 1..Len(input0) :
                    /\ i # j
                    /\ input[i] = input0[j]
                    /\ input[j] = input0[i]
                    /\ \A k \in 1..Len(input0) \ {i, j} : input[k] = input0[k]

\* Two different packets have changed places in a five-packet input.
C14_Witness ==
    /\ WasCalled("Reorder")
    /\ result = "Mutated"
    /\ Len(input0) = 5
    /\ input # input0

\* C15: PacketDeleteMutator(min_packets) uses max(1, min_packets) as its bound.
\* An input of at most that many packets is Skipped and left alone, so the
\* input is never emptied (min_packets = 4 with 4 packets is Skipped); a longer
\* input is Mutated by removing exactly one packet, the others keeping their
\* contents and relative order (5 packets become 4).
C15_Delete ==
    WasCalled("Delete") =>
        IF Len(input0) <= Max(1, CalledArg)
        THEN result = "Skipped" /\ input = input0
        ELSE /\ result = "Mutated"
             /\ Len(input) = Len(input0) - 1
             /\ \E idx \in 1..Len(input0) :
                   input = SubSeq(input0, 1, idx - 1) \o SubSeq(input0, idx + 1, Len(input0))

\* Scenario S4: min_packets = 4, and five packets have become four.
C15_Witness ==
    /\ WasCalled("Delete")
    /\ CalledArg = 4
    /\ Len(input0) = 5
    /\ result = "Mutated"
    /\ Len(input) = 4

\* C16: PacketDuplicateMutator(max_packets) returns Skipped on an input of at
\* least max_packets packets; when it returns Mutated, the input is the old
\* input with a clone of the packet at index from inserted before position to,
\* for some 0 <= from < len and 0 <= to <= len with from # to: the length has
\* grown by exactly one, the old packets keep their contents and order, and the
\* new packet equals an old one.
C16_Duplicate ==
    WasCalled("Duplicate") =>
        /\ Len(input0) >= CalledArg => result = "Skipped"
        /\ result = "Mutated" =>
              /\ Len(input) = Len(input0) + 1
              /\ \E from \in 0..(Len(input0) - 1), to \in 0..Len(input0) :
                    /\ from # to
                    /\ input = SubSeq(input0, 1, to) \o <<input0[from + 1]>>
                                  \o SubSeq(input0, to + 1, Len(input0))

\* A packet of a four-packet input has been cloned to the end of the input.
C16_Witness ==
    /\ WasCalled("Duplicate")
    /\ result = "Mutated"
    /\ Len(input0) = 4
    /\ SubSeq(input, 1, 4) = input0
    /\ input[5] # input0[4]

\* C17 as stated (scenario S5): PacketDuplicateMutator(2) returns Skipped on a
\* two-packet input, and on a one-packet input the length becomes 2 and the
\* new packet equals the old one.
C17_S5_AsStated ==
    (WasCalled("Duplicate") /\ CalledArg = 2) =>
        /\ Len(input0) = 2 => result = "Skipped"
        /\ Len(input0) = 1 => input = <<input0[1], input0[1]>>

\* C17: PacketDuplicateMutator(2) returns Skipped on a two-packet input; on a
\* one-packet input it returns either Skipped, leaving the input as it was
\* (from and to were both sampled as 0), or Mutated, and then the length is 2
\* and the new packet equals the old one.
C17_S5 ==
    (WasCalled("Duplicate") /\ CalledArg = 2) =>
        /\ Len(input0) = 2 => result = "Skipped"
        /\ Len(input0) = 1 =>
              \/ result = "Skipped" /\ input = input0
              \/ result = "Mutated" /\ input = <<input0[1], input0[1]>>

\* The one packet b"A" of an input has been doubled under max_packets = 2.
C17_Witness ==
    /\ WasCalled("Duplicate")
    /\ CalledArg = 2
    /\ input0 = <<(<<65>>)>>
    /\ result = "Mutated"
    /\ input = <<(<<65>>), (<<65>>)>>

\* --------------------------------------------------- actions of BytesSpec
\* BytesSpec calls the three BytesInput capabilities directly on every pair
\* of byte strings of at most BytesMaxLen bytes.

\* Most bytes of a BytesInput a capability is called on or with in BytesSpec.
BytesMaxLen == 3

BytesInputs == SeqsUpTo(Bytes, BytesMaxLen)

BytesInit ==
    /\ GraphInit
    /\ NoReplay
    /\ NoSched
    /\ called = None
    /\ this \in BytesInputs
    /\ that \in BytesInputs
    /\ this0 = this
    /\ capability = None
    /\ cap_result = "Skipped"
    /\ NoExample

\* this.<name>(state, &that), with outcomes what the capability may do.
CallCapability(name, outcomes) ==
    /\ cap_result # "Panic"
    /\ this \in BytesInputs
    /\ \E o \in outcomes :
          /\ this' = o.data
          /\ cap_result' = o.result
    /\ this0' = this
    /\ capability' = Some(name)
    /\ UNCHANGED <<that, called, graphVars, replayVars, schedVars, exampleVars>>

CrossoverInsert ==
    CallCapability("mutate_crossover_insert", mutate_crossover_insert(this, that))

CrossoverReplace ==
    CallCapability("mutate_crossover_replace", mutate_crossover_replace(this, that))

Splice ==
    CallCapability("mutate_splice", mutate_splice(this, that))

BytesNext ==
    \/ CrossoverInsert
    \/ CrossoverReplace
    \/ Splice

BytesSpec == BytesInit /\ [][BytesNext]_vars

\* --------------------------------------------------- claims in BytesSpec

\* The capability called last had a non-empty self and a non-empty other.
CalledOnNonEmpty(name) ==
    /\ capability = Some(name)
    /\ Len(this0) >= 1
    /\ Len(that) >= 1

\* self[a..b] of Rust, on a sequence.
Range(v, a, b) == SubSeq(v, a + 1, b)

\* C18: mutate_crossover_insert on a non-empty self (S bytes) and a non-empty
\* other (O bytes) returns Mutated with self = old self[0..to] followed by
\* other[from..from+len] followed by old self[to..S], for some to in [0, S),
\* from in [0, O) and len in [1, O - from]: self has grown by 1 to O bytes and
\* kept every old byte, and b"A" with b"B" gives b"AB" or b"BA".
C18_CrossoverInsert ==
    CalledOnNonEmpty("mutate_crossover_insert") =>
        LET S == Len(this0)
            O == Len(that)
        IN  /\ cap_result = "Mutated"
            /\ \E to \in 0..(S - 1), from \in 0..(O - 1) :
                  \E len \in 1..(O - from) :
                      this = Range(this0, 0, to) \o Range(that, from, from + len)
                                \o Range(this0, to, S)
            /\ Len(this) - S \in 1..O
            /\ (this0 = <<65>> /\ that = <<66>>) => this \in {<<65, 66>>, <<66, 65>>}

\* Two bytes of other have been inserted in the middle of a three-byte self.
C18_Witness ==
    /\ CalledOnNonEmpty("mutate_crossover_insert")
    /\ cap_result = "Mutated"
    /\ this0 = <<65, 65, 65>>
    /\ this = <<65, 66, 66, 65, 65>>

\* C19: mutate_crossover_replace on a non-empty self (S bytes) and a non-empty
\* other (O bytes) returns Mutated, without indexing out of bounds, and leaves
\* the length of self unchanged; self differs from the old self only inside
\* one window [to, to+len), with len in [1, min(O - from, S - to)], which now
\* equals other[from..from+len]; b"A" with b"B" gives b"B".
C19_CrossoverReplace ==
    CalledOnNonEmpty("mutate_crossover_replace") =>
        LET S == Len(this0)
            O == Len(that)
        IN  /\ cap_result = "Mutated"
            /\ Len(this) = S
            /\ \E to \in 0..(S - 1), from \in 0..(O - 1) :
                  \E len \in 1..Min(O - from, S - to) :
                      /\ Range(this, to, to + len) = Range(that, from, from + len)
                      /\ \A k \in 1..S : (k <= to \/ k > to + len) => this[k] = this0[k]
            /\ (this0 = <<65>> /\ that = <<66>>) => this = <<66>>

\* The last two bytes of a three-byte self have been replaced: the window
\* ends where self ends.
C19_Witness ==
    /\ CalledOnNonEmpty("mutate_crossover_replace")
    /\ cap_result = "Mutated"
    /\ this0 = <<65, 65, 65>>
    /\ that = <<66, 66, 66>>
    /\ this = <<65, 66, 66>>

\* C20: mutate_splice on a non-empty self (S bytes) and a non-empty other
\* (O bytes) returns Mutated and makes the tail other[from..] replace
\* self[to..], for some to in [0, S) and from in [0, O): afterwards self is
\* old self[0..to] followed by other[from..O]; b"A" with b"B" gives b"B".
C20_Splice ==
    CalledOnNonEmpty("mutate_splice") =>
        LET S == Len(this0)
            O == Len(that)
        IN  /\ cap_result = "Mutated"
            /\ \E to \in 0..(S - 1), from \in 0..(O - 1) :
                  this = Range(this0, 0, to) \o Range(that, from, O)
            /\ (this0 = <<65>> /\ that = <<66>>) => this = <<66>>

\* ------------------------------------------- more claims in BytesSpec

\* C21: for BytesInput, mutate_crossover_insert, mutate_crossover_replace and
\* mutate_splice return Skipped, neither an error nor a panic, and leave self
\* unchanged whenever self is empty or other is empty.
C21_EmptyPayloadSkipped ==
    (capability # None /\ (Len(this0) = 0 \/ Len(that) = 0)) =>
        /\ cap_result = "Skipped"
        /\ this = this0

\* mutate_splice was called on a non-empty self with an empty other.
C21_Witness ==
    /\ capability = Some("mutate_splice")
    /\ this0 = <<65, 66>>
    /\ that = <<>>
    /\ cap_result = "Skipped"

\* --------------------------------------------- more claims in MutSpec

\* new is self with a piece other[from..from+len] inserted before some to < S.
IsCrossoverInsertOf(new, self, other) ==
    \E to \in 0..(Len(self) - 1), from \in 0..(Len(other) - 1) :
        \E len \in 1..(Len(other) - from) :
            new = Range(self, 0, to) \o Range(other, from, from + len)
                     \o Range(self, to, Len(self))

\* new is self with one window overwritten by a piece of other as long.
IsCrossoverReplaceOf(new, self, other) ==
    \E to \in 0..(Len(self) - 1), from \in 0..(Len(other) - 1) :
        \E len \in 1..Min(Len(other) - from, Len(self) - to) :
            new = Range(self, 0, to) \o Range(other, from, from + len)
                     \o Range(self, to + len, Len(self))

\* C22: PacketSpliceMutator(min_packets) on an input of more than
\* max(1, min_packets) packets picks p in [0, len-1) and takes out packet p+1.
\* If the packet-level splice returns Mutated, the input has exactly one packet
\* less: the packet taken out is gone and every packet other than p keeps its
\* content and relative order. If it returns Skipped, the packet is put back
\* at p+1 and the input is unchanged.
C22_PacketSplice ==
    (WasCalled("Splice") /\ Len(input0) > Max(1, CalledArg)) =>
        /\ result \in {"Mutated", "Skipped"}
        /\ result = "Skipped" => input = input0
        /\ result = "Mutated" =>
              /\ Len(input) = Len(input0) - 1
              /\ \E p \in 0..(Len(input0) - 2) :
                    /\ \A k \in 1..p : input[k] = input0[k]
                    /\ \A k \in (p + 2)..Len(input) : input[k] = input0[k + 1]

\* The second of three packets was spliced with the third, which is gone.
C22_Witness ==
    /\ WasCalled("Splice")
    /\ CalledArg = 0
    /\ input0 = <<(<<65>>), (<<65>>), (<<66>>)>>
    /\ result = "Mutated"
    /\ input = <<(<<65>>), (<<66>>)>>

\* C23: PacketCrossoverInsertMutator and PacketCrossoverReplaceMutator never
\* change the number of packets and return Skipped on an input of at most one
\* packet; when they return Mutated, two different indices were sampled and
\* only the packet at the destination index has changed, by receiving bytes of
\* the source packet: the source packet and all other packets are as before.
C23_PacketCrossover ==
    (WasCalled("CrossoverInsert") \/ WasCalled("CrossoverReplace")) =>
        /\ Len(input) = Len(input0)
        /\ Len(input0) <= 1 => result = "Skipped"
        /\ result = "Mutated" =>
              \E packet, src \in 1..Len(input0) :
                  /\ packet # src
                  /\ \A k \in 1..Len(input0) \ {packet} : input[k] = input0[k]
                  /\ IF CalledKind = "CrossoverInsert"
                     THEN IsCrossoverInsertOf(input[packet], input0[packet], input0[src])
                     ELSE IsCrossoverReplaceOf(input[packet], input0[packet], input0[src])

\* The first packet b"A" has received the byte of the last packet b"B" of a
\* three-packet input.
C23_Witness ==
    /\ WasCalled("CrossoverInsert")
    /\ input0 = <<(<<65>>), (<<65>>), (<<66>>)>>
    /\ result = "Mutated"
    /\ input = <<(<<66, 65>>), (<<65>>), (<<66>>)>>

\* ------------------------------------------------- more claims in Spec

\* The ids assigned to the states of g.
NodeIds(g) == {g.nodes[s] : s \in DOMAIN g.nodes}

\* The node map of g is injective onto 0..|nodes|-1 and every endpoint of
\* every edge is an assigned id.
DenseIds(g) ==
    /\ \A s, t \in DOMAIN g.nodes : g.nodes[s] = g.nodes[t] => s = t
    /\ NodeIds(g) = 0..(Cardinality(DOMAIN g.nodes) - 1)
    /\ \A e \in g.edges :
          /\ unpack_transition(e)[1] \in NodeIds(g)
          /\ unpack_transition(e)[2] \in NodeIds(g)

\* C27: node ids are dense and stable. After every step the node map is
\* injective with id set exactly {0, ..., |nodes|-1} and every endpoint of
\* every edge is an assigned id; a state keeps the id it was given; and
\* recording a known state inserts no node.
C27_DenseStableIds ==
    [][/\ DenseIds(graph')
       /\ \A s \in DOMAIN graph.nodes :
             /\ s \in DOMAIN graph'.nodes
             /\ graph'.nodes[s] = graph.nodes[s]
       /\ (op' = "record" /\ trace'[Len(trace')] \in DOMAIN graph.nodes) =>
             graph'.nodes = graph.nodes]_vars

\* All three states have ids, and the state recorded last was known already.
C27_Witness ==
    /\ op = "record"
    /\ Cardinality(DOMAIN graph.nodes) = 3
    /\ Len(trace) = 1
    /\ graph.nodes[trace[1]] = 0

MaxResponses == 3

\* Result<ExitKind, Error>
Ok(v) == <<"Ok", v>>
Err(e) == <<"Err", e>>
ExitKinds == {"Ok", "Crash", "Timeout"}
Errors == {"Error::unknown", "Error::illegal_state"}
Results == {Ok(k) : k \in ExitKinds} \cup {Err(e) : e \in Errors}

\* The observers main hands to the ForkserverExecutor builder.
ForkserverObservers == <<ObserverName, "shared_mem">>

\* FizzleExecutor::new
FizzleExecutor_new(forksrv_executor) ==
    [proto_parser |-> "FtpParser", inner_executor |-> forksrv_executor]

\* HasObservers::observers and ::observers_mut of FizzleExecutor
FizzleExecutor_observers(exec) == exec.inner_executor.observers

\* FizzleExecutor::run_target turning an Err of the inner executor into a crash.
FizzleExecutor_run_target_hides_error(exec, g, inner_result, run_responses) ==
    [ret |-> IF inner_result[1] = "Err" THEN Ok("Crash") ELSE inner_result,
     graph |-> g]

\* FizzleExecutor::run_target. inner_result is what inner_executor.run_target
\* returned and run_responses what the target answered; the code that would
\* read them and call state_observer.record is commented out, so the
\* observer's graph g is returned as it was.
FizzleExecutor_run_target(exec, g, inner_result, run_responses) ==
    [ret |-> inner_result, graph |-> g]

ExecInit ==
    /\ GraphInit
    /\ NoReplay
    /\ NoSched
    /\ NoApply
    /\ executor = Some(FizzleExecutor_new([observers |-> ForkserverObservers]))
    /\ responses = <<>>
    /\ inner_ret = None
    /\ exec_ret = None
    /\ exec_pc = "idle"
    /\ NoSer
    /\ NoPcap

\* The fuzzer calls pre_exec on the observers before the run.
ExecPreExec ==
    /\ exec_pc \in {"idle", "evaluated"}
    /\ DoPreExec
    /\ responses' = <<>>
    /\ inner_ret' = None
    /\ exec_ret' = None
    /\ exec_pc' = "ready"
    /\ UNCHANGED <<executor, replayVars, schedVars, applyVars, serVars, pcapVars>>

\* FizzleExecutor::run_target
RunTarget ==
    /\ exec_pc = "ready"
    /\ \E inner_result \in Results, run_responses \in SeqsUpTo(States, MaxResponses) :
          LET r == FizzleExecutor_run_target(executor[1], graph, inner_result, run_responses)
          IN  /\ inner_ret' = Some(inner_result)
              /\ responses' = run_responses
              /\ exec_ret' = Some(r.ret)
              /\ graph' = r.graph
    /\ op' = "run_target"
    /\ exec_pc' = "ran"
    /\ UNCHANGED <<trace, graph0, ret, fired, executor,
                   replayVars, schedVars, applyVars, serVars, pcapVars>>

\* The fuzzer evaluates the feedback of a run that returned an ExitKind; an
\* Err ends the fuzz loop.
ExecIsInteresting ==
    /\ exec_pc = "ran"
    /\ exec_ret[1][1] = "Ok"
    /\ DoIsInteresting
    /\ exec_pc' = "evaluated"
    /\ UNCHANGED <<executor, responses, inner_ret, exec_ret,
                   replayVars, schedVars, applyVars, serVars, pcapVars>>

ExecNext ==
    \/ ExecPreExec
    \/ RunTarget
    \/ ExecIsInteresting

ExecSpec == ExecInit /\ [][ExecNext]_vars

\* ---------------------------------------------------- claims in ExecSpec

\* C24: FizzleExecutor::run_target returns exactly what the inner executor's
\* run_target returned, the same ExitKind or the same Error, and observers()
\* and observers_mut() expose exactly the inner executor's observers.
C24_ForwardsVerbatim ==
    /\ exec_pc \in {"ran", "evaluated"} => exec_ret = inner_ret
    /\ FizzleExecutor_observers(executor[1]) = ForkserverObservers

\* The inner executor failed and the wrapper returned its error.
C24_Witness ==
    /\ exec_pc = "ran"
    /\ inner_ret = Some(Err("Error::illegal_state"))
    /\ exec_ret = Some(Err("Error::illegal_state"))

\* The transition from state a to state b is an edge of g.
SeenTransition(g, a, b) ==
    /\ a \in DOMAIN g.nodes
    /\ b \in DOMAIN g.nodes
    /\ pack_transition(g.nodes[a], g.nodes[b]) \in g.edges

\* C25: after a target run the executor wrapper has recorded the state of
\* each response of the run, in order, before the feedback is evaluated, so a
\* run whose responses contain a transition not seen before makes
\* StateFeedback interesting.
C25_RunRecorded ==
    exec_pc = "evaluated" =>
        /\ trace = responses
        /\ (\E i \in 1..(Len(responses) - 1) :
               /\ responses[i] # responses[i + 1]
               /\ ~SeenTransition(graph0, responses[i], responses[i + 1]))
              => ret = Some(TRUE)

\* ------------------------------------------------- actions of ToBytesSpec
\* ToBytesSpec serialises every input of at most MaxFtpPackets FTP commands
\* with Packets::to_bytes, on a build whose usize has 4 or 8 bytes.

\* Most packets of an input serialised in ToBytesSpec.
MaxFtpPackets == 3

\* ASCII
CR == 13
LF == 10
SP == 32
CRLF == <<CR, LF>>
Ascii_USER == <<85, 83, 69, 82>>
Ascii_PASS == <<80, 65, 83, 83>>
Ascii_PASV == <<80, 65, 83, 86>>
Ascii_TYPE == <<84, 89, 80, 69>>
Ascii_LIST == <<76, 73, 83, 84>>
Ascii_CWD == <<67, 87, 68>>
Ascii_QUIT == <<81, 85, 73, 84>>
Ascii_N == 78

\* enum FtpProtocol
USER(data) == [cmd |-> "USER", data |-> data]
PASS(data) == [cmd |-> "PASS", data |-> data]
PASV == [cmd |-> "PASV"]
TYPE(arg1, arg2) == [cmd |-> "TYPE", arg1 |-> arg1, arg2 |-> arg2]
LIST(dir) == [cmd |-> "LIST", dir |-> dir]
CWD(data) == [cmd |-> "CWD", data |-> data]
QUIT == [cmd |-> "QUIT"]

\* The byte strings carried by the commands of ToBytesSpec: b"" and b"a".
FtpData == {<<>>, <<97>>}

FtpPackets ==
    {USER(d) : d \in FtpData} \cup {PASS(d) : d \in FtpData}
        \cup {CWD(d) : d \in FtpData}
        \cup {LIST(None)} \cup {LIST(Some(d)) : d \in FtpData}
        \cup {PASV, QUIT, TYPE(65, Ascii_N)}

\* FtpProtocol::to_bytes_extend: the bytes appended to v.
to_bytes_extend(pkt) ==
    CASE pkt.cmd = "USER" -> Ascii_USER \o <<SP>> \o pkt.data \o CRLF
      [] pkt.cmd = "PASS" -> Ascii_PASS \o <<SP>> \o pkt.data \o CRLF
      [] pkt.cmd = "PASV" -> Ascii_PASV \o CRLF
      [] pkt.cmd = "TYPE" -> Ascii_TYPE \o <<SP>> \o <<pkt.arg1, pkt.arg2>> \o CRLF
      [] pkt.cmd = "LIST" ->
            Ascii_LIST \o (IF pkt.dir # None THEN <<SP>> \o pkt.dir[1] ELSE <<>>) \o CRLF
      [] pkt.cmd = "CWD" -> Ascii_CWD \o <<SP>> \o pkt.data \o CRLF
      [] pkt.cmd = "QUIT" -> Ascii_QUIT \o CRLF

\* n.to_be_bytes() of an unsigned integer of width bytes. n is below 2^31
\* here, so the bytes above the low four are 0.
to_be_bytes(n, width) ==
    [i \in 1..width |->
        IF width - i >= 4 THEN 0 ELSE (n \div (256 ^ (width - i))) % 256]

\* dst.copy_from_slice(src) panics unless both slices have the same length.
RECURSIVE to_bytes_loop(_, _, _, _)
to_bytes_loop(v, all_pkts, i, usize_width) ==
    IF i > Len(all_pkts)
    THEN [status |-> "returned", v |-> v]
    ELSE LET len_field_start == Len(v)
             v1 == v \o to_be_bytes(0, 4)
             v2 == v1 \o to_bytes_extend(all_pkts[i])
             len == Len(v2) - (len_field_start + 4)
             src == to_be_bytes(len, usize_width)
         IN  IF Len(src) # 4
             THEN [status |-> "panicked", v |-> v2]
             ELSE to_bytes_loop(Copy_from_slice(v2, len_field_start, src, 0, 4),
                                all_pkts, i + 1, usize_width)

\* Packets::to_bytes. len is a usize, so len.to_be_bytes() has usize_width
\* bytes; self.pkts.len() as u32 keeps every length that occurs here.
to_bytes(all_pkts, usize_width) ==
    to_bytes_loop(to_be_bytes(Len(all_pkts), 4), all_pkts, 1, usize_width)

ToBytesInit ==
    /\ GraphInit
    /\ NoReplay
    /\ NoSched
    /\ NoApply
    /\ NoExec
    /\ NoPcap
    /\ pkts \in SeqsUpTo(FtpPackets, MaxFtpPackets)
    /\ usize_bytes \in {4, 8}
    /\ wire = None
    /\ ser_pc = "ready"

\* input.to_bytes()
ToBytes ==
    /\ ser_pc = "ready"
    /\ LET r == to_bytes(pkts, usize_bytes)
       IN  /\ ser_pc' = r.status
           /\ wire' = IF r.status = "returned" THEN Some(r.v) ELSE None
    /\ UNCHANGED <<pkts, usize_bytes, graphVars, replayVars, schedVars, applyVars,
                   execVars, pcapVars>>

ToBytesNext == ToBytes

ToBytesSpec == ToBytesInit /\ [][ToBytesNext]_vars

\* ------------------------------------------------- claims in ToBytesSpec

\* The 4-byte big-endian length of bytes, then bytes.
LengthPrefixed(bytes) ==
    <<0, 0, 0, Len(bytes)>> \o bytes

RECURSIVE Records(_)
Records(all_pkts) ==
    IF all_pkts = <<>>
    THEN <<>>
    ELSE LengthPrefixed(to_bytes_extend(Head(all_pkts))) \o Records(Tail(all_pkts))

\* C26: Packets::to_bytes produces, for every input of N packets, the 4-byte
\* big-endian count N followed, for each packet in order, by a 4-byte
\* big-endian length L and the L wire bytes of that packet; the input
\* [USER "a", PASV, QUIT] gives 00000003, 00000008 "USER a\r\n",
\* 00000006 "PASV\r\n", 00000006 "QUIT\r\n".
C26_ToBytes ==
    ser_pc # "ready" =>
        /\ ser_pc = "returned"
        /\ wire = Some(<<0, 0, 0, Len(pkts)>> \o Records(pkts))
        /\ pkts = <<USER(<<97>>), PASV, QUIT>> =>
              wire = Some(<<0, 0, 0, 3>>
                          \o <<0, 0, 0, 8>> \o <<85, 83, 69, 82, 32, 97, 13, 10>>
                          \o <<0, 0, 0, 6>> \o <<80, 65, 83, 86, 13, 10>>
                          \o <<0, 0, 0, 6>> \o <<81, 85, 73, 84, 13, 10>>)

\* ---------------------------------------------------- actions of PcapSpec
\* PcapSpec runs FtpProtocol::from_pcap, one frame per step, on every capture
\* of at most MaxCapture frames drawn from Frames.

\* Most frames of a capture in PcapSpec.
MaxCapture == 3

\* What etherparse makes of a frame: not an ethernet frame at all, a frame
\* without a TCP header, or a TCP segment with its addresses, ports, flags and
\* payload.
BadFrame == [eth |-> FALSE]
NonTcpFrame == [eth |-> TRUE, tcp |-> FALSE]
TcpFrame(src_ip, source_port, dst_ip, destination_port, flags, payload) ==
    [eth |-> TRUE, tcp |-> TRUE,
     src_ip |-> src_ip, source_port |-> source_port,
     dst_ip |-> dst_ip, destination_port |-> destination_port,
     syn |-> "SYN" \in flags, ack |-> "ACK" \in flags,
     fin |-> "FIN" \in flags, rst |-> "RST" \in flags,
     payload |-> payload]

\* Payloads: three commands as to_bytes_extend writes them, an unknown
\* command, b"USER\r\n", b"PASVx" (no CRLF) and b"ab".
Payload_USER_a == to_bytes_extend(USER(<<97>>))
Payload_QUIT == to_bytes_extend(QUIT)
Payload_LIST == to_bytes_extend(LIST(None))
Payload_HELP == <<72, 69, 76, 80>> \o CRLF
Payload_USER_short == Ascii_USER \o CRLF
Payload_no_CRLF == Ascii_PASV \o <<120>>
Payload_ab == <<97, 98>>

\* Client A opens the command connection A:5000 -> S:21 and a data connection
\* A:5001 -> S:20; client B uses the ports of A's command connection.
Frames ==
    {BadFrame, NonTcpFrame}
    \cup {TcpFrame("A", 5000, "S", 21, {"SYN"}, <<>>),
          TcpFrame("A", 5001, "S", 20, {"SYN"}, <<>>),
          TcpFrame("A", 5000, "S", 21, {"FIN", "ACK"}, <<>>),
          TcpFrame("A", 5000, "S", 21, {"RST"}, <<>>),
          TcpFrame("A", 5001, "S", 20, {"FIN", "ACK"}, <<>>)}
    \cup {TcpFrame("A", 5000, "S", 21, {"ACK"}, p)
          : p \in {Payload_USER_a, Payload_QUIT, Payload_LIST, Payload_HELP,
                   Payload_USER_short, Payload_no_CRLF, Payload_ab}}
    \cup {TcpFrame("A", 5001, "S", 20, {"ACK"}, Payload_QUIT),
          TcpFrame("B", 5000, "S", 21, {"ACK"}, Payload_QUIT),
          TcpFrame("S", 21, "A", 5000, {"ACK"}, Payload_QUIT)}

\* The while loop that looks for the \r\n: the index it stops at.
find_linebreak(payload) ==
    LET hits == {i \in 0..(Len(payload) - 2) :
                    payload[i + 1] = CR /\ payload[i + 2] = LF}
    IN  IF hits = {}
        THEN Len(payload) - 1
        ELSE CHOOSE i \in hits : \A j \in hits : i <= j

\* The match on payload[0..4]: a command, "continue" or a panic.
parse_command(payload, linebreak) ==
    LET verb == SubSeq(payload, 1, 4)
        Command(c) == [status |-> "command", command |-> c]
        Panic == [status |-> "panic"]
    IN  CASE verb = Ascii_USER -> IF Slice_ok(payload, 5, linebreak)
                THEN Command(USER(Range(payload, 5, linebreak)))
                ELSE Panic
          [] verb = Ascii_PASS -> IF Slice_ok(payload, 5, linebreak)
                THEN Command(PASS(Range(payload, 5, linebreak)))
                ELSE Panic
          [] verb = Ascii_CWD \o <<SP>> -> IF Slice_ok(payload, 4, linebreak)
                THEN Command(CWD(Range(payload, 4, linebreak)))
                ELSE Panic
          [] verb = Ascii_PASV -> Command(PASV)
          [] verb = Ascii_TYPE ->
                IF linebreak > 7
                THEN Command(TYPE(payload[6], payload[8]))
                ELSE Command(TYPE(payload[6], Ascii_N))
          [] verb = Ascii_LIST ->
                IF linebreak > 5
                THEN IF Slice_ok(payload, 5, linebreak)
                     THEN Command(LIST(Some(Range(payload, 5, linebreak))))
                     ELSE Panic
                ELSE Command(LIST(None))
          [] verb = Ascii_QUIT -> Command(QUIT)
          [] OTHER -> [status |-> "continue"]

\* One iteration of the loop body on frame: the locals afterwards and
\* whether the loop goes on, is left by break, or the process panics.
from_pcap_body(frame, connection, packets) ==
    LET Go(c, p) == [pc |-> "loop", command_connection |-> c, packets |-> p]
        Stop(next_pc) ==
            [pc |-> next_pc, command_connection |-> connection, packets |-> packets]
    IN  IF ~frame.eth
        THEN Stop("panicked")
        ELSE IF ~frame.tcp
        THEN Go(connection, packets)
        ELSE LET packet_ports == <<frame.source_port, frame.destination_port>>
             IN  IF frame.syn /\ ~frame.ack
                 THEN Go(IF connection = None THEN Some(packet_ports) ELSE connection,
                         packets)
                 ELSE IF frame.fin \/ frame.rst
                 THEN IF Some(packet_ports) = connection
                      THEN Stop("done")
                      ELSE Go(connection, packets)
                 ELSE IF Len(frame.payload) > 4 /\ Some(packet_ports) = connection
                 THEN LET linebreak == find_linebreak(frame.payload)
                          parsed == parse_command(frame.payload, linebreak)
                      IN  IF ~(linebreak < Len(frame.payload) - 1)
                          THEN Stop("panicked")
                          ELSE IF parsed.status = "panic"
                          THEN Stop("panicked")
                          ELSE IF parsed.status = "continue"
                          THEN Go(connection, packets)
                          ELSE Go(connection, Append(packets, parsed.command))
                 ELSE Go(connection, packets)

PcapInit ==
    /\ GraphInit
    /\ NoReplay
    /\ NoSched
    /\ NoApply
    /\ NoExec
    /\ NoSer
    /\ capture \in SeqsUpTo(Frames, MaxCapture)
    /\ consumed = 0
    /\ command_connection = None
    /\ pcap_packets = <<>>
    /\ pcap_pc = "loop"

\* while let Ok(packet) = capture.next_packet() { ... }: one frame is read
\* and handled.
NextPacket ==
    /\ pcap_pc = "loop"
    /\ consumed < Len(capture)
    /\ LET r == from_pcap_body(capture[consumed + 1], command_connection, pcap_packets)
       IN  /\ pcap_pc' = r.pc
           /\ command_connection' = r.command_connection
           /\ pcap_packets' = r.packets
    /\ consumed' = consumed + 1
    /\ UNCHANGED <<capture, graphVars, replayVars, schedVars, applyVars,
                   execVars, serVars>>

\* next_packet has no frame left: the loop ends and Some(packets) is returned.
EndOfCapture ==
    /\ pcap_pc = "loop"
    /\ consumed = Len(capture)
    /\ pcap_pc' = "done"
    /\ UNCHANGED <<capture, consumed, command_connection, pcap_packets,
                   graphVars, replayVars, schedVars, applyVars, execVars, serVars>>

PcapNext ==
    \/ NextPacket
    \/ EndOfCapture

PcapSpec == PcapInit /\ [][PcapNext]_vars

\* ------------------------------------------------------ claims on PcapSpec
\* Frame i of c is a TCP segment; it is a SYN without ACK; its four-tuple.
IsTcpSegment(c, i) == c[i].eth /\ c[i].tcp
IsOpeningSyn(c, i) == IsTcpSegment(c, i) /\ c[i].syn /\ ~c[i].ack
FourTuple(f) == <<f.src_ip, f.source_port, f.dst_ip, f.destination_port>>

\* The commands of the payload segments of c at the indices in (lo, hi) that
\* are on flow, in capture order.
RECURSIVE CommandsOn(_, _, _, _)
CommandsOn(c, flow, lo, hi) ==
    IF lo + 1 >= hi
    THEN <<>>
    ELSE LET i == lo + 1
             f == c[i]
             carried ==
                /\ IsTcpSegment(c, i)
                /\ FourTuple(f) = flow
                /\ ~IsOpeningSyn(c, i)
                /\ ~(f.fin \/ f.rst)
                /\ Len(f.payload) > 4
                /\ parse_command(f.payload, find_linebreak(f.payload)).status = "command"
         IN  (IF carried
              THEN <<parse_command(f.payload, find_linebreak(f.payload)).command>>
              ELSE <<>>)
             \o CommandsOn(c, flow, i, hi)

\* The recognized commands on the first client-to-server flow of c: the flow
\* of the first SYN without ACK, from that SYN to the first FIN or RST on it.
FirstFlowCommands(c) ==
    LET syns == {i \in 1..Len(c) : IsOpeningSyn(c, i)}
    IN  IF syns = {}
        THEN <<>>
        ELSE LET first == CHOOSE i \in syns : \A j \in syns : i <= j
                 flow == FourTuple(c[first])
                 stops == {i \in (first + 1)..Len(c) :
                              /\ IsTcpSegment(c, i)
                              /\ FourTuple(c[i]) = flow
                              /\ ~IsOpeningSyn(c, i)
                              /\ (c[i].fin \/ c[i].rst)}
                 stop == IF stops = {}
                         THEN Len(c) + 1
                         ELSE CHOOSE i \in stops : \A j \in stops : i <= j
             IN  CommandsOn(c, flow, first, stop)

\* C29: when from_pcap returns, its packets are exactly the recognized
\* commands carried on the first client-to-server TCP flow of the capture:
\* the flow of the first SYN without ACK, payloads after that SYN only, in
\* capture order, and nothing from the first FIN or RST on that flow onwards.
C29_FirstFlowImported ==
    pcap_pc = "done" => pcap_packets = FirstFlowCommands(capture)

\* C30: from_pcap never panics, whatever the capture holds: a frame that is
\* not valid ethernet, a payload on the command flow longer than 4 bytes
\* without CRLF, or a command shorter than its argument offset is skipped.
C30_MalformedSkipped ==
    pcap_pc # "panicked"

\* ------------------------------------------------- more claims on Spec
\* C33: only pre_exec clears the per-run state. On every other step
\* new_transitions does not go from true to false and last_node is not
\* cleared; post_exec and is_interesting leave the graph as it is; and a
\* record that follows an earlier record without a pre_exec in between, be it
\* in the same run or in the next one, links from the state recorded last,
\* with the edge in the graph when the two states differ.
C33_ClearedOnlyByReset ==
    [][op' # "pre_exec" =>
        /\ (had_new_transitions(graph) => had_new_transitions(graph'))
        /\ (graph.last_node # None => graph'.last_node # None)
        /\ (op' \in {"post_exec", "is_interesting"} => graph' = graph)
        /\ (op' = "record" /\ graph.last_node # None =>
              LET old_id == graph.last_node[1]
                  id == graph'.last_node[1]
              IN  /\ id = graph'.nodes[trace'[Len(trace')]]
                  /\ old_id = graph.nodes[trace[Len(trace)]]
                  /\ (old_id # id => pack_transition(old_id, id) \in graph'.edges))
    ]_vars

\* A run has ended with a new transition and no pre_exec has followed: the
\* observer still reports the run's result and still holds its last state.
C33_Witness ==
    /\ op = "post_exec"
    /\ had_new_transitions(graph)
    /\ graph.last_node # None
    /\ Len(trace) >= 2

C37_InsertNeverAppends ==
    CalledOnNonEmpty("mutate_crossover_insert") =>
        LET S == Len(this0)
        IN  /\ cap_result = "Mutated"
            /\ Len(this) > S
            /\ At(this, Len(this) - 1) = At(this0, S - 1)
            /\ \E to \in 0..(S - 1) :
                  Range(this, Len(this) - (S - to), Len(this)) = Range(this0, to, S)
            /\ (this0 = <<65>> /\ that = <<66>>) => this = <<66, 65>>

\* b"A" crossed with b"B" has given b"BA".
C37_Witness ==
    /\ CalledOnNonEmpty("mutate_crossover_insert")
    /\ cap_result = "Mutated"
    /\ this0 = <<65>>
    /\ that = <<66>>
    /\ this = <<66, 65>>

\* -------------------------------------------------- actions of FtpCapSpec
\* FtpCapSpec calls the four packet capabilities of FtpProtocol on every pair
\* of commands, again and again while the payload has room to grow.

\* Most bytes of the payload of a command a capability is called on.
MaxFtpData == 2

\* FtpProtocol::inner_data and inner_data_mut: Some(the payload) or None.
inner_data(pkt) ==
    IF pkt.cmd \in {"USER", "PASS", "CWD"}
    THEN Some(pkt.data)
    ELSE IF pkt.cmd = "LIST"
    THEN pkt.dir
    ELSE None

\* The packet after data has been written through inner_data_mut.
set_inner_data(pkt, data) ==
    IF pkt.cmd = "LIST" THEN LIST(Some(data)) ELSE [pkt EXCEPT !.data = data]

\* The outcomes on the packet self of the outcomes on its payload.
on_inner_data(self, outcomes) ==
    {PacketOutcome(o.result, set_inner_data(self, o.data)) : o \in outcomes}

\* BytesInput::mutate_havoc: one mutation of the set is run on the bytes; it
\* changes them in any way and reports Mutated, or leaves them and reports
\* Skipped.
BytesInput_mutate_havoc(data) ==
    {PacketOutcome("Skipped", data)}
        \cup {PacketOutcome("Mutated", d) : d \in SeqsUpTo({97, 98}, MaxFtpData)}

\* HasCrossoverInsertMutation for FtpProtocol
FtpProtocol_mutate_crossover_insert(self, other) ==
    IF inner_data(self) # None /\ inner_data(other) # None
    THEN on_inner_data(self, mutate_crossover_insert(inner_data(self)[1],
                                                     inner_data(other)[1]))
    ELSE {PacketOutcome("Skipped", self)}

\* HasCrossoverReplaceMutation for FtpProtocol
FtpProtocol_mutate_crossover_replace(self, other) ==
    IF inner_data(self) # None /\ inner_data(other) # None
    THEN on_inner_data(self, mutate_crossover_replace(inner_data(self)[1],
                                                      inner_data(other)[1]))
    ELSE {PacketOutcome("Skipped", self)}

\* Mutant of FtpProtocol::mutate_splice: a missing payload is an error.
FtpProtocol_mutate_splice_errs(self, other) ==
    IF inner_data(self) # None /\ inner_data(other) # None
    THEN on_inner_data(self, mutate_splice(inner_data(self)[1], inner_data(other)[1]))
    ELSE {PacketOutcome("Err", self)}

\* HasSpliceMutation for FtpProtocol
FtpProtocol_mutate_splice(self, other) ==
    IF inner_data(self) # None /\ inner_data(other) # None
    THEN on_inner_data(self, mutate_splice(inner_data(self)[1], inner_data(other)[1]))
    ELSE {PacketOutcome("Skipped", self)}

\* HasHavocMutation for FtpProtocol
FtpProtocol_mutate_havoc(self) ==
    IF inner_data(self) # None
    THEN on_inner_data(self, BytesInput_mutate_havoc(inner_data(self)[1]))
    ELSE {PacketOutcome("Skipped", self)}

FtpCapInit ==
    /\ GraphInit
    /\ NoReplay
    /\ NoSched
    /\ called = None
    /\ this \in FtpPackets
    /\ that \in FtpPackets
    /\ this0 = this
    /\ capability = None
    /\ cap_result = "Skipped"
    /\ NoExample

\* this.<name>(state, ...), with outcomes what the capability may do.
CallFtpCapability(name, outcomes) ==
    /\ inner_data(this) # None => Len(inner_data(this)[1]) <= MaxFtpData
    /\ \E o \in outcomes :
          /\ this' = o.data
          /\ cap_result' = o.result
    /\ this0' = this
    /\ capability' = Some(name)
    /\ UNCHANGED <<that, called, graphVars, replayVars, schedVars, exampleVars>>

FtpCrossoverInsert ==
    CallFtpCapability("mutate_crossover_insert",
                      FtpProtocol_mutate_crossover_insert(this, that))

FtpCrossoverReplace ==
    CallFtpCapability("mutate_crossover_replace",
                      FtpProtocol_mutate_crossover_replace(this, that))

FtpSplice ==
    CallFtpCapability("mutate_splice", FtpProtocol_mutate_splice(this, that))

FtpHavoc ==
    CallFtpCapability("mutate_havoc", FtpProtocol_mutate_havoc(this))

FtpCapNext ==
    \/ FtpCrossoverInsert
    \/ FtpCrossoverReplace
    \/ FtpSplice
    \/ FtpHavoc

FtpCapSpec == FtpCapInit /\ [][FtpCapNext]_vars

\* ---------------------------------------------------- claims on FtpCapSpec
\* C31: a capability of FtpProtocol called on a command without inner
\* payload (PASV, TYPE, QUIT, LIST(None)), or a two-packet capability called
\* with such a command as other, returns Skipped, not an error, and leaves
\* the command as it was.
C31_NoPayloadSkipped ==
    (/\ capability # None
     /\ \/ inner_data(this0) = None
        \/ capability # Some("mutate_havoc") /\ inner_data(that) = None)
    => cap_result = "Skipped" /\ this = this0

\* Splice has been called on USER "a" with QUIT as the other packet.
C31_Witness ==
    /\ capability = Some("mutate_splice")
    /\ this0 = USER(<<97>>)
    /\ that = QUIT
    /\ cap_result = "Skipped"
    /\ this = this0

\* ------------------------------------------------ actions of RoundTripSpec
\* RoundTripSpec writes one command with to_bytes_extend and hands the bytes,
\* as the payload of one segment on the command connection, to from_pcap.

\* Most bytes of the payload of the command written in RoundTripSpec.
MaxRoundTripData == 2

\* Payloads over b'a', CR and LF; TYPE arguments b'A', b'I' and b'N'.
RoundTripData == SeqsUpTo({97, CR, LF}, MaxRoundTripData)

RoundTripPackets ==
    {USER(d) : d \in RoundTripData} \cup {PASS(d) : d \in RoundTripData}
        \cup {CWD(d) : d \in RoundTripData}
        \cup {LIST(None)} \cup {LIST(Some(d)) : d \in RoundTripData}
        \cup {PASV, QUIT}
        \cup {TYPE(a, b) : a \in {65, 73, Ascii_N}, b \in {65, 73, Ascii_N}}

RoundTripInit ==
    /\ GraphInit
    /\ NoReplay
    /\ NoSched
    /\ NoApply
    /\ NoExec
    /\ NoPcap
    /\ pkts \in {<<c>> : c \in RoundTripPackets}
    /\ usize_bytes = 8
    /\ wire = None
    /\ ser_pc = "ready"

\* to_bytes_extend(&mut v) on an empty v; the bytes are then captured as one
\* segment that follows the SYN of the command connection.
Encode ==
    /\ ser_pc = "ready"
    /\ wire' = Some(to_bytes_extend(pkts[1]))
    /\ ser_pc' = "returned"
    /\ capture' = <<TcpFrame("A", 5000, "S", 21, {"SYN"}, <<>>),
                    TcpFrame("A", 5000, "S", 21, {"ACK"}, to_bytes_extend(pkts[1]))>>
    /\ UNCHANGED <<pkts, usize_bytes, consumed, command_connection, pcap_packets,
                   pcap_pc, graphVars, replayVars, schedVars, applyVars, execVars>>

\* from_pcap on the captured bytes.
ImportPacket ==
    /\ ser_pc = "returned"
    /\ NextPacket

ImportEnd ==
    /\ ser_pc = "returned"
    /\ EndOfCapture

RoundTripNext ==
    \/ Encode
    \/ ImportPacket
    \/ ImportEnd

RoundTripSpec == RoundTripInit /\ [][RoundTripNext]_vars

\* ------------------------------------------------- claims on RoundTripSpec
\* The payload of command c, empty when it has none.
PayloadOf(c) ==
    IF inner_data(c) = None THEN <<>> ELSE inner_data(c)[1]

\* The bytes v hold CR LF somewhere.
HasCRLF(v) == \E i \in 1..(Len(v) - 1) : v[i] = CR /\ v[i + 1] = LF

\* C38: for every command c whose payload holds no CR LF, from_pcap on the
\* bytes to_bytes_extend(c) wrote, captured as one payload on the command
\* connection, returns exactly c: TYPE(a, b) and LIST(Some(empty)) included.
C38_RoundTrip ==
    (ser_pc = "returned" /\ ~HasCRLF(PayloadOf(pkts[1]))) =>
        /\ pcap_pc # "panicked"
        /\ pcap_pc = "done" => pcap_packets = pkts

\* ------------------------------------------- more claims checked in SchedSpec
\* Every sub-mutator of mt returns Skipped on inp, whatever is drawn.
AllSkipped(mt, inp) ==
    \A mutation \in schedule(mt) :
        \A o \in get_and_mutate(mt, mutation, inp) : o.result = "Skipped"

\* scheduled_mutate is at its while test with nothing but Skipped to come.
Stuck ==
    /\ sched_pc = "loop"
    /\ result = "Skipped"
    /\ AllSkipped(mutations, input)

\* C34: when every registered sub-mutator returns Skipped on the input for
\* every draw, scheduled_mutate never returns: another turn of the loop is
\* always possible, and every step from there leaves the call in the loop
\* with result Skipped and the input unchanged.
C34_NeverReturns ==
    /\ [](Stuck => ENABLED Attempt)
    /\ [][Stuck => (Stuck' /\ input' = input /\ input = input0)]_vars

\* The registration without Duplicate has been tried on a one-packet input
\* and has skipped; the call is still in its loop.
C34_Witness ==
    /\ Stuck
    /\ had_skip
    /\ Len(input) = 1
    /\ Len(mutations) = 5

\* ------------------------------------------------ actions of SpliceErrSpec
\* SpliceErrSpec calls PacketSpliceMutator::mutate, built for a packet type
\* whose mutate_splice may return an error, on the inputs of MutSpec; the
\* caller keeps the input after an error and may call again.

SpliceErrInit == MutInit

MutateSpliceFallible ==
    \E min_packets \in 0..MutMaxPackets :
        Mutate(PacketSpliceMutator_new_for("FalliblePacket", min_packets),
               Some(min_packets))

SpliceErrNext == MutateSpliceFallible

SpliceErrSpec == SpliceErrInit /\ [][SpliceErrNext]_vars

\* ------------------------------------------------ claims on SpliceErrSpec
\* C35: when the packet-level splice returns an error, PacketSpliceMutator
\* returns that error and does not put back the packet it removed: the input
\* is the old input without packet p + 1, for some p below len - 1, one
\* packet shorter. When the packet-level splice is skipped the input is the
\* old input.
C35_ErrorLosesPacket ==
    WasCalled("Splice") =>
        /\ result = "Err" =>
              /\ Len(input) = Len(input0) - 1
              /\ \E p \in below(Len(input0) - 1) : input = Vec_remove(input0, p + 1)
        /\ result = "Skipped" => input = input0

\* The splice of b"A" with b"B" has failed and b"B" is gone.
C35_Witness ==
    /\ WasCalled("Splice")
    /\ result = "Err"
    /\ input0 = <<<<65>>, <<66>>>>
    /\ input = <<<<65>>>>

=============================================================================
